---- MODULE Spec2Model ----
(***************************************************************************)
(* Browser client of the aiaio chat application                            *)
(* (src/src/aiaio/app/static/script.js): the push channel                  *)
(* (connectWebSocket, handleWebSocketMessage, handleVisibilityChange),     *)
(* the conversation list loader (loadConversations) and the chat stream    *)
(* (chatForm submit handler, stop button, createAssistantMessage,          *)
(* updateAssistantMessage).                                                *)
(*                                                                         *)
(* One action is one run-to-completion step of the JavaScript event loop:  *)
(* a handler or the continuation of an async function up to its next       *)
(* await.                                                                  *)
(***************************************************************************)
EXTENDS Integers, Sequences, FiniteSets, TLC

(* ------------------------------ bounds -------------------------------- *)
\* sockets ever created by connectWebSocket in one run
MaxSockets == 3
\* server-side changes of the conversation list in one run
MaxClock == 3
\* startNewConversation calls waiting on updateSystemPrompt
MaxPending == 2
\* chat submissions in one run
MaxSubmits == 2
\* chunks one stream delivers
MaxChunks == 2
\* chunks overlapping streams deliver, all together
MaxOverlapChunks == 1
\* push events dispatched in one run
MaxEvents == 2
\* calls of loadConversation in one run
MaxLoads == 2

\* characters in a streamed reply whose bytes are followed
MaxChars == 2

(* -------------------------- program constants ------------------------- *)
\* setTimeout(connectWebSocket, 3000)
ReconnectDelay == 3000
\* granularity of the modelled clock, in ms
TickMs == ReconnectDelay \div 3

NoId == "none"
ConvIds == {"c1", "c2"}
ConvOrder == <<"c1", "c2">>
MsgIds == {"m1", "m2"}
Roles == {"user", "assistant"}
\* chunk alphabet: "t" a piece of plain text, "f" a code fence
Tokens == {"t", "f"}
\* conv.summary: 0 is the empty summary, n > 0 the n-th title text
NoSummary == 0

VARIABLES
    sockets,            \* every WebSocket created so far: [readyState, inbox]
    ws,                 \* state.ws: index into sockets, 0 = null
    timers,             \* pending setTimeout(connectWebSocket, ..): remaining ms
    hidden,             \* document.hidden
    isLoading,          \* state.isLoading
    listReq,            \* the GET /conversations of loadConversations
    convList,           \* #conversations-list as rendered
    srv,                \* the server's conversations
    startNewPending,    \* startNewConversation calls awaiting updateSystemPrompt
    currentConversationId, \* state.currentConversationId
    pane,               \* children of #messages-container
    cam,                \* state.currentAssistantMessage: uid of the element, 0 = null
    ctl,                \* state.abortController (0 = null), the aborted controllers
    ui,                 \* send and stop buttons
    subs,               \* the runs of the chatForm submit handler
    nextUid,            \* elements created so far, plus one
    seen,               \* push events dispatched so far: how many, and the id
                        \* of the last message_added for the displayed
                        \* conversation that came after run 1's placeholder
    notif,              \* #custom-modal and #toast-container
    regen,              \* the regeneration: the onConfirm closure of its
                        \* confirm modal, then its run
    convReqs,           \* the calls of loadConversation so far: the id asked
                        \* for and how far the call has come
    keepAlive,          \* setInterval timers of the keepalive message
    wire,               \* the body of the /chat response as the server sent
                        \* it, and how many of its bytes have been read
    wsOut               \* what the last step sent with state.ws.send

vars == <<sockets, ws, timers, hidden, isLoading, listReq, convList, srv,
          startNewPending, currentConversationId, pane, cam, ctl, ui, subs,
          nextUid, seen, notif, regen, convReqs, keepAlive, wire,
          wsOut>>

streamVars == <<currentConversationId, pane, cam, ctl, ui, subs, nextUid>>

channelVars == <<sockets, ws, timers>>
listVars == <<isLoading, listReq, convList>>

(* ------------------------------ helpers ------------------------------- *)
Range(s) == {s[i] : i \in 1..Len(s)}

Live(i) == sockets[i].readyState \in {"CONNECTING", "OPEN"}

LiveSockets == {i \in 1..Len(sockets) : Live(i)}

NoEvent == [type |-> "none", conversation_id |-> NoId, message_id |-> NoId,
            role |-> "user", content |-> <<>>, summary |-> NoSummary]

IdleUi == [sendDisabled |-> FALSE, sendHidden |-> FALSE, stopHidden |-> TRUE]

\* A run of the submit handler: where it is, its responseText, the controller
\* whose signal its request carries, the placeholder it created, whether stop
\* was clicked before its first chunk, whether stop was clicked at all while
\* it was running, and how it ended.
IdleSub == [pc |-> "idle", text |-> <<>>, ctrl |-> 0, ph |-> 0, stop |-> FALSE,
            cancel |-> FALSE, out |-> "none"]

\* #custom-modal carries class hidden until showModal, #toast-container is empty.
NoNotif == [hidden |-> TRUE, flex |-> FALSE, type |-> "none", modals |-> 0,
            toasts |-> 0]

\* regenerateResponse: nothing asked yet. uid and mid are the messageDiv and
\* the messageId its closure holds, ctrl the controller whose signal its
\* request carries, text its responseText.
IdleRegen == [pc |-> "idle", uid |-> 0, mid |-> NoId, ctrl |-> 0, text |-> <<>>,
              out |-> "none"]

\* A response body that is looked at as chunks of text only.
NoWire == [all |-> <<>>, pos |-> 0]

\* The placeholder startNewConversation puts into #messages-container.
EmptyState == [kind |-> "empty", uid |-> 0, id |-> NoId, content |-> <<>>,
               regen |-> NoId, edit |-> NoId]

(* ----------------------- conversation list loader --------------------- *)
NoReq == [st |-> "none", snap |-> <<>>]

\* GET /conversations as the server answers it now: the stored conversations.
Snapshot == [i \in 1..Len(ConvOrder) |->
                [id |-> ConvOrder[i]] @@ srv.convs[ConvOrder[i]]]

Present(snap) == SelectSeq(snap, LAMBDA c : c.present)

\* data.conversations.sort((a, b) => b.last_updated - a.last_updated): stable.
RECURSIVE SortByUpdated(_)
SortByUpdated(s) ==
    IF Len(s) <= 1 THEN s
    ELSE LET rest == SortByUpdated(Tail(s))
             h == Head(s)
             before == SelectSeq(rest, LAMBDA c : c.last_updated > h.last_updated)
             after == SelectSeq(rest, LAMBDA c : c.last_updated <= h.last_updated)
         IN before \o <<h>> \o after

\* The html of one list entry: id, summary text, timestamp and the active class.
ListEntry(c, cur) ==
    [id |-> c.id,
     summary |-> IF c.summary = NoSummary
                 THEN [label |-> "New Conversation", val |-> 0]
                 ELSE [label |-> "text", val |-> c.summary],
     last_updated |-> c.last_updated,
     active |-> (c.id = cur)]

RenderList(snap, cur) ==
    LET sorted == SortByUpdated(Present(snap))
    IN [i \in 1..Len(sorted) |-> ListEntry(sorted[i], cur)]

\* A loadConversations without the test of state.isLoading.
Mut_loadConversations_call ==
    /\ isLoading' = TRUE
    /\ listReq' = [st |-> "sent", snap |-> <<>>]

\* loadConversations up to its first await: returns at once while a load is
\* running, else takes the flag and issues the fetch.
loadConversations_call ==
    IF isLoading
    THEN UNCHANGED <<isLoading, listReq>>
    ELSE /\ isLoading' = TRUE
         /\ listReq' = [st |-> "sent", snap |-> <<>>]

\* The server answers the pending GET /conversations.
ListServerRespond ==
    /\ listReq.st = "sent"
    /\ listReq' = [st |-> "responded", snap |-> Snapshot]
    /\ UNCHANGED regen
    /\ UNCHANGED <<convReqs, keepAlive, wire>>
    /\ wsOut' = <<>>
    /\ UNCHANGED <<sockets, ws, timers, hidden, isLoading, convList, srv,
                   startNewPending, streamVars, seen, notif>>

\* loadConversations after its awaits: render, then finally isLoading = false.
loadConversations_done ==
    /\ listReq.st = "responded"
    /\ convList' = RenderList(listReq.snap, currentConversationId)
    /\ isLoading' = FALSE
    /\ listReq' = NoReq
    /\ UNCHANGED regen
    /\ UNCHANGED <<convReqs, keepAlive, wire>>
    /\ wsOut' = <<>>
    /\ UNCHANGED <<sockets, ws, timers, hidden, srv, startNewPending,
                   streamVars, seen, notif>>

\* fetch or response.json() throws, or data.conversations is missing: the catch
\* logs, the finally clears the flag, the list stays.
loadConversations_fail ==
    /\ listReq.st \in {"sent", "responded"}
    /\ isLoading' = FALSE
    /\ listReq' = NoReq
    /\ UNCHANGED regen
    /\ UNCHANGED <<convReqs, keepAlive, wire>>
    /\ wsOut' = <<>>
    /\ UNCHANGED <<sockets, ws, timers, hidden, convList, srv,
                   startNewPending, streamVars, seen, notif>>

(* ------------------------------ push channel -------------------------- *)
\* connectWebSocket: state.ws = new WebSocket(wsUrl) with its four handlers.
connectWebSocket ==
    /\ sockets' = Append(sockets, [readyState |-> "CONNECTING", inbox |-> <<>>])
    /\ ws' = Len(sockets) + 1

\* state.ws.onclose = () => setTimeout(connectWebSocket, 3000)
Mut_onclose == timers' = timers

onclose == timers' = Append(timers, ReconnectDelay)

\* state.ws.onopen = () => console.log('WebSocket connected')
onopen == UNCHANGED <<isLoading, listReq, streamVars>>

\* The connection of socket i is established.
WsOpen(i) ==
    /\ sockets[i].readyState = "CONNECTING"
    /\ sockets' = [sockets EXCEPT ![i].readyState = "OPEN"]
    /\ onopen
    /\ UNCHANGED regen
    /\ UNCHANGED <<convReqs, keepAlive, wire>>
    /\ wsOut' = <<>>
    /\ UNCHANGED <<ws, timers, hidden, convList, srv, startNewPending, seen, notif>>

\* Socket i fails to connect or its connection drops.
WsClose(i) ==
    /\ Live(i)
    /\ Len(sockets) + Len(timers) < MaxSockets
    /\ sockets' = [sockets EXCEPT ![i] = [readyState |-> "CLOSED", inbox |-> <<>>]]
    /\ onclose
    /\ UNCHANGED regen
    /\ UNCHANGED <<convReqs, keepAlive, wire>>
    /\ wsOut' = <<>>
    /\ UNCHANGED <<ws, hidden, isLoading, listReq, convList, srv, startNewPending,
                   streamVars, seen, notif>>

\* Time passes: every pending timer comes TickMs closer to being due.
Tick ==
    /\ \E k \in 1..Len(timers) : timers[k] > 0
    /\ timers' = [k \in 1..Len(timers) |->
                    IF timers[k] > TickMs THEN timers[k] - TickMs ELSE 0]
    /\ UNCHANGED regen
    /\ UNCHANGED <<convReqs, keepAlive, wire>>
    /\ wsOut' = <<>>
    /\ UNCHANGED <<sockets, ws, hidden, isLoading, listReq, convList, srv,
                   startNewPending, streamVars, seen, notif>>

\* A due reconnect timer runs connectWebSocket.
TimerFire ==
    /\ timers # <<>>
    /\ Head(timers) = 0
    /\ timers' = Tail(timers)
    /\ connectWebSocket
    /\ UNCHANGED regen
    /\ UNCHANGED <<convReqs, keepAlive, wire>>
    /\ wsOut' = <<>>
    /\ UNCHANGED <<hidden, isLoading, listReq, convList, srv, startNewPending,
                   streamVars, seen, notif>>

\* handleVisibilityChange, on the visibilitychange event that sets
\* document.hidden to h.
Mut_handleVisibilityChange(h) ==
    /\ h # hidden
    /\ hidden' = h
    /\ IF ~h
       THEN /\ IF ws = 0
               THEN /\ Len(sockets) + Len(timers) < MaxSockets
                    /\ connectWebSocket
               ELSE UNCHANGED <<sockets, ws>>
            /\ loadConversations_call
       ELSE /\ UNCHANGED <<sockets, ws, isLoading, listReq>>
    /\ UNCHANGED regen
    /\ UNCHANGED <<convReqs, keepAlive, wire>>
    /\ wsOut' = <<>>
    /\ UNCHANGED <<timers, convList, srv, startNewPending, streamVars,
                   seen, notif>>

handleVisibilityChange(h) ==
    /\ h # hidden
    /\ hidden' = h
    /\ IF ~h
       THEN /\ IF ws = 0 \/ sockets[ws].readyState # "OPEN"
               THEN /\ Len(sockets) + Len(timers) < MaxSockets
                    /\ connectWebSocket
               ELSE UNCHANGED <<sockets, ws>>
            /\ loadConversations_call
       ELSE /\ UNCHANGED <<sockets, ws, isLoading, listReq>>
    /\ UNCHANGED regen
    /\ UNCHANGED <<convReqs, keepAlive, wire>>
    /\ wsOut' = <<>>
    /\ UNCHANGED <<timers, convList, srv, startNewPending, streamVars,
                   seen, notif>>

(* ------------------------------ message pane -------------------------- *)
\* marked.parse with the decorations updateAssistantMessage adds, on a text of
\* Tokens: text outside a fence is a paragraph, a fence opens a code block
\* (which gets a copy button), text inside it is code, a second fence closes
\* it, and a block still open at the end of the text is closed there.
RECURSIVE Parse(_, _)
Parse(text, inCode) ==
    IF text = <<>> THEN (IF inCode THEN <<"</pre>">> ELSE <<>>)
    ELSE IF Head(text) = "f"
         THEN (IF inCode THEN <<"</pre>">> ELSE <<"<pre>", "copy">>)
              \o Parse(Tail(text), ~inCode)
         ELSE <<(IF inCode THEN "code" ELSE "p")>> \o Parse(Tail(text), inCode)

Render(text) == Parse(text, FALSE)

\* element.textContent = text: the characters themselves, no markup.
Plain(text) == [i \in 1..Len(text) |-> IF text[i] = "f" THEN "fence" ELSE "t"]

TypingIndicator == <<"typing">>

HasEmptyState(p) == \E k \in 1..Len(p) : p[k].kind = "empty"

\* appendUserMessage(content, messageId): the edit button's inline onclick
\* holds the id it was rendered with.
appendUserMessage(p, uid, content, messageId) ==
    Append(IF HasEmptyState(p) THEN <<>> ELSE p,
           [kind |-> "user", uid |-> uid, id |-> messageId,
            content |-> Plain(content), regen |-> NoId, edit |-> messageId])

\* createAssistantMessage(messageId, content): both buttons are bound to the
\* messageId argument.
createAssistantMessage(p, uid, messageId, content) ==
    Append(IF HasEmptyState(p) THEN <<>> ELSE p,
           [kind |-> "assistant", uid |-> uid, id |-> messageId,
            content |-> IF content = <<>> THEN TypingIndicator ELSE Plain(content),
            regen |-> messageId, edit |-> messageId])

\* The body of updateAssistantMessage for messageDiv = the element uid: a full
\* re-render of content; the edit button now reads dataset.messageId on click.
\* An element that is no longer in the pane changes nothing that is shown.
renderInto(p, uid, content) ==
    [k \in 1..Len(p) |->
        IF p[k].uid = uid
        THEN [p[k] EXCEPT !.content = Render(content), !.edit = "dataset"]
        ELSE p[k]]

\* updateAssistantMessage(content) with messageDiv = null: the target is
\* state.currentAssistantMessage, created first when that is null.
\* Gives the pane, state.currentAssistantMessage and the next free uid.
Mut_updateAssistantMessage(p, c, uid, content) ==
    LET p1 == createAssistantMessage(p, uid, NoId, <<>>)
    IN [pane |-> renderInto(p1, uid, content), cam |-> uid, nextUid |-> uid + 1]

updateAssistantMessage(p, c, uid, content) ==
    IF c = 0
    THEN LET p1 == createAssistantMessage(p, uid, NoId, <<>>)
         IN [pane |-> renderInto(p1, uid, content), cam |-> uid, nextUid |-> uid + 1]
    ELSE [pane |-> renderInto(p, c, content), cam |-> c, nextUid |-> uid]

\* showModal(title, message, 'error'): the one #custom-modal is filled and shown.
showModal(n, type) ==
    [n EXCEPT !.hidden = FALSE, !.flex = TRUE, !.type = type, !.modals = @ + 1]

\* closeModal as the later of the two declarations defines it: class hidden is
\* added, class flex stays.
closeModal(n) == [n EXCEPT !.hidden = TRUE]

\* The user dismisses the modal with its Close button.
CloseModal ==
    /\ ~notif.hidden
    /\ notif' = closeModal(notif)
    /\ UNCHANGED regen
    /\ UNCHANGED <<convReqs, keepAlive, wire>>
    /\ wsOut' = <<>>
    /\ UNCHANGED <<sockets, ws, timers, hidden, isLoading, listReq, convList, srv,
                   startNewPending, streamVars, seen>>

(* ------------------------------ chat submission ----------------------- *)
\* What the user typed: nothing, or a message.
UserText == <<"t">>

Active(s) == subs[s].pc \in {"creating", "fetching", "reading"}

ActiveSubs == {s \in 1..MaxSubmits : Active(s)}

RECURSIVE ChunksUpTo(_)
ChunksUpTo(n) == IF n = 0 THEN 0 ELSE Len(subs[n].text) + ChunksUpTo(n - 1)

StreamingUi == [sendDisabled |-> TRUE, sendHidden |-> TRUE, stopHidden |-> FALSE]

\* The catch of the submit handler: silent for an AbortError, else the error modal.
Mut_catchModal(n, errName) == n

catchModal(n, errName) ==
    IF errName # "AbortError" THEN showModal(n, "error") ELSE n

\* The catch and the finally of run s, which ends by errName ("none": the
\* stream ended): buttons back, state.abortController and
\* state.currentAssistantMessage null.
Mut_chatExit(s, errName) ==
    /\ notif' = IF errName = "none" THEN notif ELSE catchModal(notif, errName)
    /\ ui' = IdleUi
    /\ ctl' = [ctl EXCEPT !.cur = 0]
    /\ cam' = cam
    /\ subs' = [subs EXCEPT ![s].pc = "done", ![s].ctrl = 0, ![s].ph = 0,
                            ![s].out = IF errName = "none" THEN "end"
                                       ELSE IF errName = "AbortError" THEN "abort"
                                       ELSE "error"]

chatExit(s, errName) ==
    /\ notif' = IF errName = "none" THEN notif ELSE catchModal(notif, errName)
    /\ ui' = IdleUi
    /\ ctl' = [ctl EXCEPT !.cur = 0]
    /\ cam' = 0
    /\ subs' = [subs EXCEPT ![s].pc = "done", ![s].ctrl = 0, ![s].ph = 0,
                            ![s].out = IF errName = "none" THEN "end"
                                       ELSE IF errName = "AbortError" THEN "abort"
                                       ELSE "error"]

\* The handler from appendUserMessage to the await of fetch('/chat'), for run s
\* on pane p: the user message and the placeholder are appended, and the
\* request is issued with state.abortController.signal. Reading .signal of
\* null throws a TypeError; an aborted signal rejects the fetch at once.
chatBody(s) ==
    LET p2 == createAssistantMessage(
                  appendUserMessage(pane, nextUid, UserText, NoId),
                  nextUid + 1, NoId, <<>>)
    IN /\ pane' = p2
       /\ nextUid' = nextUid + 2
       /\ IF ctl.cur = 0 THEN chatExit(s, "TypeError")
          ELSE IF ctl.cur \in ctl.aborted THEN chatExit(s, "AbortError")
          ELSE /\ subs' = [subs EXCEPT ![s].pc = "fetching", ![s].ctrl = ctl.cur,
                                       ![s].ph = nextUid + 1]
               /\ cam' = nextUid + 1
               /\ UNCHANGED <<ctl, ui, notif>>

\* The submit event of #chat-form, from a click on the send button (possible
\* only while it is enabled and shown) or from Enter in the textarea, which
\* calls chatForm.requestSubmit(); msg is the trimmed input.
Submit(via, msg) ==
    /\ \E s \in 1..MaxSubmits : subs[s].pc = "idle"
    /\ via = "button" => (~ui.sendDisabled /\ ~ui.sendHidden)
    /\ LET s == CHOOSE x \in 1..MaxSubmits :
                    subs[x].pc = "idle" /\ \A y \in 1..(x - 1) : subs[y].pc # "idle"
       IN IF msg = <<>>
          THEN UNCHANGED <<streamVars, notif>>
          ELSE /\ ui' = StreamingUi
               /\ notif' = notif
               /\ IF currentConversationId = NoId
                  THEN /\ ctl' = [ctl EXCEPT !.cur = ctl.next, !.next = @ + 1]
                       /\ subs' = [subs EXCEPT ![s].pc = "creating"]
                       /\ UNCHANGED <<currentConversationId, pane, cam, nextUid>>
                  ELSE /\ ctl' = [ctl EXCEPT !.cur = ctl.next, !.next = @ + 1]
                       /\ pane' = createAssistantMessage(
                                      appendUserMessage(pane, nextUid, UserText, NoId),
                                      nextUid + 1, NoId, <<>>)
                       /\ nextUid' = nextUid + 2
                       /\ cam' = nextUid + 1
                       /\ subs' = [subs EXCEPT ![s].pc = "fetching",
                                               ![s].ctrl = ctl.next,
                                               ![s].ph = nextUid + 1]
                       /\ UNCHANGED currentConversationId
    /\ UNCHANGED regen
    /\ UNCHANGED <<convReqs, keepAlive, wire>>
    /\ wsOut' = <<>>
    /\ UNCHANGED <<sockets, ws, timers, hidden, isLoading, listReq, convList, srv,
                   startNewPending, seen>>

\* POST /create_conversation answers with the new conversation c: the handler
\* resumes, stores the id, calls loadConversations() and runs on to the fetch.
CreateDone(s, c) ==
    /\ subs[s].pc = "creating"
    /\ ~srv.convs[c].present
    /\ srv' = [clock |-> srv.clock + 1,
               convs |-> [srv.convs EXCEPT ![c] =
                            [present |-> TRUE, summary |-> NoSummary,
                             last_updated |-> srv.clock + 1]]]
    /\ currentConversationId' = c
    /\ loadConversations_call
    /\ chatBody(s)
    /\ UNCHANGED regen
    /\ UNCHANGED <<convReqs, keepAlive, wire>>
    /\ wsOut' = <<>>
    /\ UNCHANGED <<sockets, ws, timers, hidden, convList, startNewPending, seen>>

\* POST /create_conversation fails, or its body is no JSON.
CreateFail(s) ==
    /\ subs[s].pc = "creating"
    /\ chatExit(s, "TypeError")
    /\ UNCHANGED regen
    /\ UNCHANGED <<convReqs, keepAlive, wire>>
    /\ wsOut' = <<>>
    /\ UNCHANGED <<sockets, ws, timers, hidden, isLoading, listReq, convList, srv,
                   startNewPending, currentConversationId, pane, nextUid, seen>>

\* POST /create_conversation is answered with an error status and a JSON body
\* that has no conversation_id: fetch resolves, the status is not looked at,
\* state.currentConversationId becomes undefined (falsy, as null is) and the
\* handler runs on as after a creation.
CreateRejected(s) ==
    /\ subs[s].pc = "creating"
    /\ currentConversationId' = NoId
    /\ loadConversations_call
    /\ chatBody(s)
    /\ UNCHANGED regen
    /\ UNCHANGED <<convReqs, keepAlive, wire>>
    /\ wsOut' = <<>>
    /\ UNCHANGED <<sockets, ws, timers, hidden, convList, srv, startNewPending,
                   seen>>

\* The response of POST /chat arrives: not ok throws, ok goes on to read the body.
ChatResponse(s, ok) ==
    /\ subs[s].pc = "fetching"
    /\ subs[s].ctrl \notin ctl.aborted
    /\ IF ok
       THEN /\ subs' = [subs EXCEPT ![s].pc = "reading"]
            /\ UNCHANGED <<cam, ctl, ui, notif>>
       ELSE chatExit(s, "Error")
    /\ UNCHANGED regen
    /\ UNCHANGED <<convReqs, keepAlive, wire>>
    /\ wsOut' = <<>>
    /\ UNCHANGED <<sockets, ws, timers, hidden, isLoading, listReq, convList, srv,
                   startNewPending, currentConversationId, pane, nextUid, seen>>

\* The connection of POST /chat breaks before the response or between chunks.
ChatNetError(s) ==
    /\ subs[s].pc \in {"fetching", "reading"}
    /\ subs[s].ctrl \notin ctl.aborted
    /\ chatExit(s, "TypeError")
    /\ UNCHANGED regen
    /\ UNCHANGED <<convReqs, keepAlive, wire>>
    /\ wsOut' = <<>>
    /\ UNCHANGED <<sockets, ws, timers, hidden, isLoading, listReq, convList, srv,
                   startNewPending, currentConversationId, pane, nextUid, seen>>

\* reader.read() gives the chunk tok: responseText += chunk, then
\* updateAssistantMessage(responseText).
Chunk(s, tok) ==
    /\ subs[s].pc = "reading"
    /\ subs[s].ctrl \notin ctl.aborted
    /\ LET text == Append(subs[s].text, tok)
           r == updateAssistantMessage(pane, cam, nextUid, text)
       IN /\ subs' = [subs EXCEPT ![s].text = text]
          /\ pane' = r.pane
          /\ cam' = r.cam
          /\ nextUid' = r.nextUid
    /\ UNCHANGED regen
    /\ UNCHANGED <<convReqs, keepAlive, wire>>
    /\ wsOut' = <<>>
    /\ UNCHANGED <<sockets, ws, timers, hidden, isLoading, listReq, convList, srv,
                   startNewPending, currentConversationId, ctl, ui, seen, notif>>

\* reader.read() gives done: the loop breaks and the finally runs.
StreamEnd(s) ==
    /\ subs[s].pc = "reading"
    /\ subs[s].ctrl \notin ctl.aborted
    /\ chatExit(s, "none")
    /\ UNCHANGED regen
    /\ UNCHANGED <<convReqs, keepAlive, wire>>
    /\ wsOut' = <<>>
    /\ UNCHANGED <<sockets, ws, timers, hidden, isLoading, listReq, convList, srv,
                   startNewPending, currentConversationId, pane, nextUid, seen>>

\* The controller whose signal the request of run s carries was aborted: the
\* pending fetch or read rejects with an AbortError.
ChatAborted(s) ==
    /\ subs[s].pc \in {"fetching", "reading"}
    /\ subs[s].ctrl \in ctl.aborted
    /\ chatExit(s, "AbortError")
    /\ UNCHANGED regen
    /\ UNCHANGED <<convReqs, keepAlive, wire>>
    /\ wsOut' = <<>>
    /\ UNCHANGED <<sockets, ws, timers, hidden, isLoading, listReq, convList, srv,
                   startNewPending, currentConversationId, pane, nextUid, seen>>

\* A stop handler that sends without looking at the readyState of the socket.
Mut_StopClick ==
    /\ ~ui.stopHidden
    /\ ctl' = IF ctl.cur # 0
              THEN [ctl EXCEPT !.aborted = @ \cup {ctl.cur}]
              ELSE ctl
    /\ subs' = [s \in 1..MaxSubmits |->
                  IF Active(s)
                  THEN [subs[s] EXCEPT !.cancel = TRUE,
                                       !.stop = (@ \/ subs[s].text = <<>>)]
                  ELSE subs[s]]
    /\ UNCHANGED regen
    /\ UNCHANGED <<convReqs, keepAlive, wire>>
    /\ wsOut' = IF ws # 0 THEN <<"stop_generation">> ELSE <<>>
    /\ UNCHANGED <<sockets, ws, timers, hidden, isLoading, listReq, convList, srv,
                   startNewPending, currentConversationId, pane, cam, ui, nextUid,
                   seen, notif>>

\* A click on the stop button, which the user can reach while it is shown.
\* Remembers for every running run that it was stopped, and whether that was
\* before its first chunk.
StopClick ==
    /\ ~ui.stopHidden
    /\ ctl' = IF ctl.cur # 0
              THEN [ctl EXCEPT !.aborted = @ \cup {ctl.cur}]
              ELSE ctl
    /\ subs' = [s \in 1..MaxSubmits |->
                  IF Active(s)
                  THEN [subs[s] EXCEPT !.cancel = TRUE,
                                       !.stop = (@ \/ subs[s].text = <<>>)]
                  ELSE subs[s]]
    /\ UNCHANGED regen
    /\ UNCHANGED <<convReqs, keepAlive, wire>>
    /\ wsOut' = IF ws # 0 /\ sockets[ws].readyState = "OPEN"
                 THEN <<"stop_generation">>
                 ELSE <<>>
    /\ UNCHANGED <<sockets, ws, timers, hidden, isLoading, listReq, convList, srv,
                   startNewPending, currentConversationId, pane, cam, ui, nextUid,
                   seen, notif>>

(* ------------------------------ regeneration -------------------------- *)
\* The place of the element uid in the pane, 0 when it is not in it.
FindElement(p, uid) ==
    IF \E k \in 1..Len(p) : p[k].uid = uid
    THEN CHOOSE k \in 1..Len(p) : p[k].uid = uid
    ELSE 0

\* contentDiv.innerHTML = ... / contentDiv.textContent = ... on the element uid.
setContent(p, uid, content) ==
    [k \in 1..Len(p) |->
        IF p[k].uid = uid THEN [p[k] EXCEPT !.content = content] ELSE p[k]]

\* A click on the regenerate button of the assistant element at k: the button
\* calls regenerateResponse(messageDiv, messageId) with the id it was bound
\* with, which asks for confirmation.
RegenerateClick(k) ==
    /\ pane[k].kind = "assistant"
    /\ regen.pc = "idle"
    /\ regen' = [IdleRegen EXCEPT !.pc = "confirm", !.uid = pane[k].uid,
                                  !.mid = pane[k].regen]
    /\ notif' = showModal(notif, "confirm")
    /\ UNCHANGED <<convReqs, keepAlive, wire>>
    /\ wsOut' = <<>>
    /\ UNCHANGED <<sockets, ws, timers, hidden, isLoading, listReq, convList, srv,
                   startNewPending, streamVars, seen>>

\* A click on Confirm: onConfirm() up to its await, then closeModal(). Without
\* a user message before the element the callback returns; else the controller
\* is replaced, the element shows "Regenerating..." and the request is sent
\* with the message id of the closure.
ConfirmClick ==
    /\ regen.pc = "confirm"
    /\ notif.type = "confirm"
    /\ ~notif.hidden
    /\ notif' = closeModal(notif)
    /\ LET k == FindElement(pane, regen.uid)
       IN IF k = 0 \/ ~\E j \in 1..(k - 1) : pane[j].kind = "user"
          THEN /\ regen' = IdleRegen
               /\ UNCHANGED <<pane, ctl>>
          ELSE /\ ctl' = [ctl EXCEPT !.cur = ctl.next, !.next = @ + 1]
               /\ pane' = setContent(pane, regen.uid, <<"regenerating">>)
               /\ regen' = [regen EXCEPT !.pc = "fetching", !.ctrl = ctl.next]
    /\ UNCHANGED <<convReqs, keepAlive, wire>>
    /\ wsOut' = <<>>
    /\ UNCHANGED <<sockets, ws, timers, hidden, isLoading, listReq, convList, srv,
                   startNewPending, currentConversationId, cam, ui, subs, nextUid,
                   seen>>

\* The catch and the finally of the callback: whatever was thrown, the element
\* shows the failure text and the error modal comes up; state.abortController
\* becomes null.
regenFail(out) ==
    /\ pane' = setContent(pane, regen.uid, <<"failed">>)
    /\ notif' = showModal(notif, "error")
    /\ ctl' = [ctl EXCEPT !.cur = 0]
    /\ regen' = [regen EXCEPT !.pc = "done", !.ctrl = 0, !.out = out]

\* The response of POST /regenerate_response arrives.
RegenResponse(ok) ==
    /\ regen.pc = "fetching"
    /\ regen.ctrl \notin ctl.aborted
    /\ IF ok
       THEN /\ regen' = [regen EXCEPT !.pc = "reading"]
            /\ UNCHANGED <<pane, notif, ctl>>
       ELSE regenFail("error")
    /\ UNCHANGED <<convReqs, keepAlive, wire>>
    /\ wsOut' = <<>>
    /\ UNCHANGED <<sockets, ws, timers, hidden, isLoading, listReq, convList, srv,
                   startNewPending, currentConversationId, cam, ui, subs, nextUid,
                   seen>>

\* The connection of the request breaks before the response or between chunks.
RegenNetError ==
    /\ regen.pc \in {"fetching", "reading"}
    /\ regen.ctrl \notin ctl.aborted
    /\ regenFail("error")
    /\ UNCHANGED <<convReqs, keepAlive, wire>>
    /\ wsOut' = <<>>
    /\ UNCHANGED <<sockets, ws, timers, hidden, isLoading, listReq, convList, srv,
                   startNewPending, currentConversationId, cam, ui, subs, nextUid,
                   seen>>

\* The controller whose signal the request carries was aborted: the pending
\* fetch or read rejects with an AbortError.
RegenAborted ==
    /\ regen.pc \in {"fetching", "reading"}
    /\ regen.ctrl \in ctl.aborted
    /\ regenFail("abort")
    /\ UNCHANGED <<convReqs, keepAlive, wire>>
    /\ wsOut' = <<>>
    /\ UNCHANGED <<sockets, ws, timers, hidden, isLoading, listReq, convList, srv,
                   startNewPending, currentConversationId, cam, ui, subs, nextUid,
                   seen>>

\* reader.read() gives the chunk tok: updateAssistantMessage(responseText,
\* messageDiv).
RegenChunk(tok) ==
    /\ regen.pc = "reading"
    /\ regen.ctrl \notin ctl.aborted
    /\ Len(regen.text) < MaxChunks
    /\ regen' = [regen EXCEPT !.text = Append(@, tok)]
    /\ pane' = renderInto(pane, regen.uid, Append(regen.text, tok))
    /\ UNCHANGED <<convReqs, keepAlive, wire>>
    /\ wsOut' = <<>>
    /\ UNCHANGED <<sockets, ws, timers, hidden, isLoading, listReq, convList, srv,
                   startNewPending, currentConversationId, cam, ctl, ui, subs,
                   nextUid, seen, notif>>

\* reader.read() gives done: the finally runs.
RegenEnd ==
    /\ regen.pc = "reading"
    /\ regen.ctrl \notin ctl.aborted
    /\ regen' = [regen EXCEPT !.pc = "done", !.ctrl = 0, !.out = "end"]
    /\ ctl' = [ctl EXCEPT !.cur = 0]
    /\ UNCHANGED <<convReqs, keepAlive, wire>>
    /\ wsOut' = <<>>
    /\ UNCHANGED <<sockets, ws, timers, hidden, isLoading, listReq, convList, srv,
                   startNewPending, currentConversationId, pane, cam, ui, subs,
                   nextUid, seen, notif>>

(* ------------------------------ push events --------------------------- *)
Event(type, c, m, role, content, summary) ==
    [type |-> type, conversation_id |-> c, message_id |-> m, role |-> role,
     content |-> content, summary |-> summary]

\* The events a server can push: the five kinds of handleWebSocketMessage.
Events ==
    {Event(ty, c, NoId, "user", <<>>, NoSummary) :
        ty \in {"conversation_created", "conversation_deleted"}, c \in ConvIds}
    \cup {Event("message_added", c, m, r, <<>>, NoSummary) :
            c \in ConvIds, m \in MsgIds \cup {NoId}, r \in {"assistant"}}
    \cup {Event("message_edited", "c1", m, r, <<"f">>, NoSummary) :
            m \in MsgIds, r \in Roles}
    \cup {Event("summary_updated", c, NoId, "user", <<>>, s) :
            c \in ConvIds, s \in {NoSummary, 1}}

ListKinds == {"conversation_created", "conversation_deleted", "message_added"}

\* The case message_added of handleWebSocketMessage for the displayed
\* conversation: the last element of the pane, if it has no id yet, gets the
\* event's id, and the buttons it has are bound to that id.
Mut_attachId(p, m) ==
    IF p # <<>> /\ m # NoId
    THEN [p EXCEPT ![Len(p)] = [@ EXCEPT !.id = m, !.content = Render(<<>>)]]
    ELSE p

\* Attaches to the last element without an id, wherever it is in the pane.
Mut_attachIdAnywhere(p, m) ==
    LET free == {k \in 1..Len(p) : p[k].id = NoId}
    IN IF free # {} /\ m # NoId
       THEN LET k == CHOOSE x \in free : \A y \in free : y <= x
            IN [p EXCEPT ![k] = [@ EXCEPT !.id = m, !.regen = m, !.edit = m]]
       ELSE p

attachId(p, m) ==
    IF p # <<>> /\ p[Len(p)].id = NoId /\ m # NoId
    THEN [p EXCEPT ![Len(p)] =
            IF @.kind = "assistant"
            THEN [@ EXCEPT !.id = m, !.regen = m, !.edit = m]
            ELSE [@ EXCEPT !.id = m]]
    ELSE p

\* document.querySelector('[data-message-id=..]'): the first element with the
\* id, 0 when there is none.
FindMessage(p, m) ==
    IF \E k \in 1..Len(p) : p[k].id = m
    THEN CHOOSE k \in 1..Len(p) : p[k].id = m /\ \A j \in 1..(k - 1) : p[j].id # m
    ELSE 0

\* The case message_edited. An assistant edit re-renders the element through
\* updateAssistantMessage, which throws when the element has no
\* .message-content; a user edit sets the text of the element's .prose and
\* rebinds the inline edit button a user element has.
\* An edit that adds the new content to what the element shows.
Mut_editMessage(p, data) ==
    LET k == FindMessage(p, data.message_id)
    IN IF k = 0 THEN p
       ELSE [p EXCEPT ![k] = [@ EXCEPT !.content = @ \o Plain(data.content)]]

editMessage(p, data) ==
    LET k == FindMessage(p, data.message_id)
    IN IF k = 0 THEN p
       ELSE IF data.role = "assistant"
            THEN (IF p[k].kind = "assistant"
                  THEN renderInto(p, p[k].uid, data.content)
                  ELSE p)
            ELSE (IF p[k].kind = "empty" THEN p
                  ELSE [p EXCEPT ![k] =
                          [@ EXCEPT !.content = Plain(data.content),
                                    !.edit = IF p[k].kind = "assistant"
                                             THEN @ ELSE data.message_id]])

\* The case summary_updated: the summary text of the list entry of the
\* conversation, if the list has one.
updateSummary(l, data) ==
    [k \in 1..Len(l) |->
        IF l[k].id = data.conversation_id
        THEN [l[k] EXCEPT !.summary =
                IF data.summary = NoSummary
                THEN [label |-> "No summary", val |-> 0]
                ELSE [label |-> "text", val |-> data.summary]]
        ELSE l[k]]

\* The displayed conversation id, the message pane and the conversation list.
Shown == [cur |-> currentConversationId, pane |-> pane, list |-> convList]

\* What handleWebSocketMessage(data) makes of the displayed conversation id,
\* the message pane and the conversation list, as a function of them.
eventEffect(st, data) ==
    IF data.type = "message_added" /\ st.cur = data.conversation_id
    THEN [st EXCEPT !.pane = attachId(st.pane, data.message_id)]
    ELSE IF data.type = "conversation_deleted" /\ st.cur = data.conversation_id
    THEN [st EXCEPT !.pane = <<EmptyState>>, !.cur = NoId]
    ELSE IF data.type = "message_edited"
    THEN [st EXCEPT !.pane = editMessage(st.pane, data)]
    ELSE IF data.type = "summary_updated"
    THEN [st EXCEPT !.list = updateSummary(st.list, data)]
    ELSE st

\* handleWebSocketMessage(data)
Mut_handleWebSocketMessage(data) ==
    IF data.type \in ListKinds
    THEN /\ loadConversations_call
         /\ convList' = convList
         /\ IF data.type = "message_added"
            THEN /\ pane' = attachId(pane, data.message_id)
                 /\ UNCHANGED <<currentConversationId, startNewPending>>
            ELSE IF data.type = "conversation_deleted"
                    /\ currentConversationId = data.conversation_id
            THEN /\ startNewPending < MaxPending
                 /\ pane' = <<EmptyState>>
                 /\ currentConversationId' = NoId
                 /\ startNewPending' = startNewPending + 1
            ELSE UNCHANGED <<pane, currentConversationId, startNewPending>>
    ELSE IF data.type = "message_edited"
    THEN /\ pane' = editMessage(pane, data)
         /\ UNCHANGED <<isLoading, listReq, convList, currentConversationId,
                        startNewPending>>
    ELSE /\ convList' = updateSummary(convList, data)
         /\ UNCHANGED <<isLoading, listReq, pane, currentConversationId,
                        startNewPending>>

handleWebSocketMessage(data) ==
    LET after == eventEffect(Shown, data)
    IN /\ currentConversationId' = after.cur
       /\ pane' = after.pane
       /\ convList' = after.list
       /\ IF data.type \in ListKinds
          THEN loadConversations_call
          ELSE UNCHANGED <<isLoading, listReq>>
       /\ IF data.type = "conversation_deleted"
             /\ currentConversationId = data.conversation_id
          THEN \* startNewConversation() waits for updateSystemPrompt()
               /\ startNewPending < MaxPending
               /\ startNewPending' = startNewPending + 1
          ELSE UNCHANGED startNewPending

\* state.ws.onmessage for an event that arrives on the open socket i with
\* nothing queued before it.
WsMessage(i, e) ==
    /\ sockets[i].readyState = "OPEN"
    /\ sockets[i].inbox = <<>>
    /\ seen.n < MaxEvents
    /\ seen' = [n |-> seen.n + 1,
                mark |-> IF /\ e.type = "message_added"
                            /\ e.conversation_id = currentConversationId
                            /\ e.message_id # NoId
                            /\ subs[1].pc \in {"fetching", "reading", "done"}
                         THEN e.message_id
                         ELSE seen.mark]
    /\ handleWebSocketMessage(e)
    /\ UNCHANGED regen
    /\ UNCHANGED <<convReqs, keepAlive, wire>>
    /\ wsOut' = <<>>
    /\ UNCHANGED <<sockets, ws, timers, hidden, srv, cam, ctl, ui, subs, nextUid,
                   notif>>

\* startNewConversation after await updateSystemPrompt(): loadConversations().
startNewConversation_resume ==
    /\ startNewPending > 0
    /\ startNewPending' = startNewPending - 1
    /\ loadConversations_call
    /\ UNCHANGED regen
    /\ UNCHANGED <<convReqs, keepAlive, wire>>
    /\ wsOut' = <<>>
    /\ UNCHANGED <<sockets, ws, timers, hidden, convList, srv, streamVars, seen,
                   notif>>

(* ------------------------------ loadConversation ---------------------- *)
\* data.messages of GET /conversations/{c}: every stored conversation holds
\* a user message and its reply.
StoredMessages(c) ==
    IF c = "c1"
    THEN <<[role |-> "user", message_id |-> "m1", content |-> UserText],
           [role |-> "assistant", message_id |-> "m2", content |-> <<"t">>]>>
    ELSE <<[role |-> "user", message_id |-> "n1", content |-> UserText],
           [role |-> "assistant", message_id |-> "n2", content |-> <<"t">>]>>

\* The loop of loadConversation over data.messages, on the pane p with uid
\* the next free element.
RECURSIVE showMessages(_, _, _)
showMessages(p, uid, msgs) ==
    IF msgs = <<>> THEN p
    ELSE LET msg == Head(msgs)
             p1 == IF msg.role = "user"
                   THEN appendUserMessage(p, uid, msg.content, msg.message_id)
                   ELSE renderInto(
                            createAssistantMessage(p, uid, msg.message_id,
                                                   msg.content),
                            uid, msg.content)
         IN showMessages(p1, uid + 1, Tail(msgs))

\* A click on the list entry of conversation c: loadConversation(c) up to its
\* first await.
loadConversation_call(c) ==
    /\ Len(convReqs) < MaxLoads
    /\ \E k \in 1..Len(convList) : convList[k].id = c
    /\ currentConversationId' = c
    /\ convReqs' = Append(convReqs, [id |-> c, st |-> "sent"])
    /\ UNCHANGED <<keepAlive, wire>>
    /\ wsOut' = <<>>
    /\ UNCHANGED <<sockets, ws, timers, hidden, isLoading, listReq, convList, srv,
                   startNewPending, pane, cam, ctl, ui, subs, nextUid, seen,
                   notif, regen>>

\* The answer to the k-th call has arrived and is parsed: the pane is emptied
\* and filled with the messages of the answer; then await updateSystemPrompt().
loadConversation_resume(k) ==
    /\ convReqs[k].st = "sent"
    /\ pane' = showMessages(<<>>, nextUid, StoredMessages(convReqs[k].id))
    /\ nextUid' = nextUid + Len(StoredMessages(convReqs[k].id))
    /\ convReqs' = [convReqs EXCEPT ![k].st = "prompt"]
    /\ UNCHANGED <<keepAlive, wire>>
    /\ wsOut' = <<>>
    /\ UNCHANGED <<sockets, ws, timers, hidden, isLoading, listReq, convList, srv,
                   startNewPending, currentConversationId, cam, ctl, ui, subs,
                   seen, notif, regen>>

\* The fetch of the k-th call fails: the catch logs.
loadConversation_fail(k) ==
    /\ convReqs[k].st = "sent"
    /\ convReqs' = [convReqs EXCEPT ![k].st = "failed"]
    /\ UNCHANGED <<keepAlive, wire>>
    /\ wsOut' = <<>>
    /\ UNCHANGED <<sockets, ws, timers, hidden, isLoading, listReq, convList, srv,
                   startNewPending, streamVars, seen, notif, regen>>

\* The k-th call after await updateSystemPrompt(): loadConversations().
loadConversation_done(k) ==
    /\ convReqs[k].st = "prompt"
    /\ convReqs' = [convReqs EXCEPT ![k].st = "done"]
    /\ loadConversations_call
    /\ UNCHANGED <<keepAlive, wire>>
    /\ wsOut' = <<>>
    /\ UNCHANGED <<sockets, ws, timers, hidden, convList, srv, startNewPending,
                   streamVars, seen, notif, regen>>

\* The user asks for a new conversation: startNewConversation() up to its
\* await.
startNewConversation_call ==
    /\ startNewPending < MaxPending
    /\ startNewPending' = startNewPending + 1
    /\ pane' = <<EmptyState>>
    /\ currentConversationId' = NoId
    /\ UNCHANGED <<convReqs, keepAlive, wire>>
    /\ wsOut' = <<>>
    /\ UNCHANGED <<sockets, ws, timers, hidden, isLoading, listReq, convList, srv,
                   cam, ctl, ui, subs, nextUid, seen, notif, regen>>

(* ------------------------------ initial state ------------------------- *)
\* The state when the DOMContentLoaded handler returns: initializeCore has
\* called loadConversations (fetch issued), startNewConversation (waiting on
\* updateSystemPrompt) and connectWebSocket.
InitSrv == [clock |-> 0,
            convs |-> [c \in ConvIds |->
                         [present |-> FALSE, summary |-> NoSummary,
                          last_updated |-> 0]]]

Init ==
    /\ sockets = <<[readyState |-> "CONNECTING", inbox |-> <<>>]>>
    /\ ws = 1
    /\ timers = <<>>
    /\ hidden = FALSE
    /\ isLoading = TRUE
    /\ listReq = [st |-> "sent", snap |-> <<>>]
    /\ convList = <<>>
    /\ srv = InitSrv
    /\ startNewPending = 1
    /\ currentConversationId = NoId
    /\ pane = <<EmptyState>>
    /\ cam = 0
    /\ ctl = [cur |-> 0, aborted |-> {}, next |-> 1]
    /\ ui = IdleUi
    /\ subs = [s \in 1..MaxSubmits |-> IdleSub]
    /\ nextUid = 1
    /\ seen = [n |-> 0, mark |-> NoId]
    /\ notif = NoNotif
    /\ regen = IdleRegen
    /\ convReqs = <<>>
    /\ keepAlive = 0
    /\ wire = NoWire
    /\ wsOut = <<>>

\* The pane loadConversation builds for a conversation that holds the user
\* message m1 and the assistant message m2.
StoredPane ==
    LET p1 == appendUserMessage(<<EmptyState>>, 1, UserText, "m1")
        p2 == createAssistantMessage(p1, 2, "m2", <<"t">>)
    IN renderInto(p2, 2, <<"t">>)

\* The session at rest: as Init leaves it, or after the user has opened the
\* stored conversation c1 from the list.
InitOne ==
    /\ sockets = <<[readyState |-> "CONNECTING", inbox |-> <<>>]>>
    /\ ws = 1
    /\ timers = <<>>
    /\ hidden = FALSE
    /\ isLoading = TRUE
    /\ listReq = [st |-> "sent", snap |-> <<>>]
    /\ convList = <<>>
    /\ startNewPending = 1
    /\ \/ /\ srv = InitSrv
          /\ currentConversationId = NoId
          /\ pane = <<EmptyState>>
          /\ nextUid = 1
       \/ /\ srv = [InitSrv EXCEPT !.convs["c1"].present = TRUE]
          /\ currentConversationId = "c1"
          /\ pane = StoredPane
          /\ nextUid = 3
    /\ cam = 0
    /\ ctl = [cur |-> 0, aborted |-> {}, next |-> 1]
    /\ ui = IdleUi
    /\ subs = [s \in 1..MaxSubmits |-> IdleSub]
    /\ seen = [n |-> 0, mark |-> NoId]
    /\ notif = NoNotif
    /\ regen = IdleRegen
    /\ convReqs = <<>>
    /\ keepAlive = 0
    /\ wire = NoWire
    /\ wsOut = <<>>

(* ------------------------- push channel specification ----------------- *)
NextChannel ==
    \/ \E i \in 1..Len(sockets) : WsOpen(i)
    \/ \E i \in 1..Len(sockets) : WsClose(i)
    \/ Tick
    \/ TimerFire
    \/ \E h \in BOOLEAN : handleVisibilityChange(h)
    \/ ListServerRespond
    \/ loadConversations_done
    \/ loadConversations_fail
    \/ startNewConversation_resume

SpecChannel == Init /\ [][NextChannel]_vars

\* The event loop runs due timers and time does not stop.
FairSpecChannel == SpecChannel /\ WF_vars(Tick) /\ WF_vars(TimerFire)

(* ------------------------- chat stream specification ------------------ *)
\* The runs of the submit handler, one after another or overlapping, with the
\* stop button and the error modal.
Next ==
    \/ WsOpen(1)
    \/ \E via \in {"button", "enter"}, msg \in {<<>>, UserText} : Submit(via, msg)
    \/ \E s \in 1..MaxSubmits, c \in ConvIds : CreateDone(s, c)
    \/ \E s \in 1..MaxSubmits : CreateFail(s)
    \/ \E s \in 1..MaxSubmits, ok \in BOOLEAN : ChatResponse(s, ok)
    \/ \E s \in 1..MaxSubmits : ChatNetError(s)
    \/ \E s \in 1..MaxSubmits, tok \in Tokens :
            ChunksUpTo(MaxSubmits) < MaxOverlapChunks /\ Chunk(s, tok)
    \/ \E s \in 1..MaxSubmits : StreamEnd(s)
    \/ \E s \in 1..MaxSubmits : ChatAborted(s)
    \/ StopClick
    \/ CloseModal

Spec == Init /\ [][Next]_vars

(* ---------------------- stream and push events specification ---------- *)
\* The first submission of the session.
FirstSubmit(via, msg) ==
    /\ \A s \in 1..MaxSubmits : subs[s].pc = "idle"
    /\ Submit(via, msg)

\* One chat submission, with the push events that arrive before, during and
\* after its stream.
NextOne ==
    \/ WsOpen(1)
    \/ \E via \in {"button", "enter"}, msg \in {<<>>, UserText} : FirstSubmit(via, msg)
    \/ \E c \in ConvIds : CreateDone(1, c)
    \/ CreateFail(1)
    \/ \E ok \in BOOLEAN : ChatResponse(1, ok)
    \/ ChatNetError(1)
    \/ \E tok \in Tokens : Len(subs[1].text) < MaxChunks /\ Chunk(1, tok)
    \/ StreamEnd(1)
    \/ ChatAborted(1)
    \/ StopClick
    \/ CloseModal
    \/ \E i \in 1..Len(sockets), e \in Events : WsMessage(i, e)
    \/ startNewConversation_resume
    \/ ListServerRespond
    \/ loadConversations_done
    \/ loadConversations_fail

SpecOne == InitOne /\ [][NextOne]_vars

(* ---------------------- conversation list specification ------------- *)
\* The server pushes event e: it is queued, behind what is queued already,
\* on every open socket.
Push(e) ==
    /\ \A i \in 1..Len(sockets) :
            sockets[i].readyState = "OPEN" => Len(sockets[i].inbox) < MaxEvents
    /\ sockets' = [i \in 1..Len(sockets) |->
                    IF sockets[i].readyState = "OPEN"
                    THEN [sockets[i] EXCEPT !.inbox = Append(@, e)]
                    ELSE sockets[i]]

\* Another session creates the conversation c, which gets a fresh id.
ServerCreate(c) ==
    /\ srv.clock < MaxClock
    /\ ~srv.convs[c].present
    /\ srv.convs[c].last_updated = 0
    /\ srv' = [clock |-> srv.clock + 1,
               convs |-> [srv.convs EXCEPT ![c] =
                            [present |-> TRUE, summary |-> NoSummary,
                             last_updated |-> srv.clock + 1]]]
    /\ Push(Event("conversation_created", c, NoId, "user", <<>>, NoSummary))
    /\ UNCHANGED regen
    /\ UNCHANGED <<convReqs, keepAlive, wire>>
    /\ wsOut' = <<>>
    /\ UNCHANGED <<ws, timers, hidden, isLoading, listReq, convList,
                   startNewPending, streamVars, seen, notif>>

\* The server gives the conversation c a new summary.
ServerSummary(c) ==
    /\ srv.clock < MaxClock
    /\ srv.convs[c].present
    /\ srv' = [clock |-> srv.clock + 1,
               convs |-> [srv.convs EXCEPT ![c].summary = srv.clock + 1]]
    /\ Push(Event("summary_updated", c, NoId, "user", <<>>, srv.clock + 1))
    /\ UNCHANGED regen
    /\ UNCHANGED <<convReqs, keepAlive, wire>>
    /\ wsOut' = <<>>
    /\ UNCHANGED <<ws, timers, hidden, isLoading, listReq, convList,
                   startNewPending, streamVars, seen, notif>>

\* Another session deletes the conversation c.
ServerDelete(c) ==
    /\ srv.clock < MaxClock
    /\ srv.convs[c].present
    /\ srv' = [clock |-> srv.clock + 1,
               convs |-> [srv.convs EXCEPT ![c].present = FALSE]]
    /\ Push(Event("conversation_deleted", c, NoId, "user", <<>>, NoSummary))
    /\ UNCHANGED regen
    /\ UNCHANGED <<convReqs, keepAlive, wire>>
    /\ wsOut' = <<>>
    /\ UNCHANGED <<ws, timers, hidden, isLoading, listReq, convList,
                   startNewPending, streamVars, seen, notif>>

\* A message is stored in the conversation c: its last_updated moves on.
ServerMessage(c, m) ==
    /\ srv.clock < MaxClock
    /\ srv.convs[c].present
    /\ srv' = [clock |-> srv.clock + 1,
               convs |-> [srv.convs EXCEPT ![c].last_updated = srv.clock + 1]]
    /\ Push(Event("message_added", c, m, "assistant", <<>>, NoSummary))
    /\ UNCHANGED regen
    /\ UNCHANGED <<convReqs, keepAlive, wire>>
    /\ wsOut' = <<>>
    /\ UNCHANGED <<ws, timers, hidden, isLoading, listReq, convList,
                   startNewPending, streamVars, seen, notif>>

\* state.ws.onmessage for the event at the head of the queue of socket i.
WsDeliver(i) ==
    /\ sockets[i].readyState = "OPEN"
    /\ sockets[i].inbox # <<>>
    /\ handleWebSocketMessage(Head(sockets[i].inbox))
    /\ sockets' = [sockets EXCEPT ![i].inbox = Tail(@)]
    /\ UNCHANGED regen
    /\ UNCHANGED <<convReqs, keepAlive, wire>>
    /\ wsOut' = <<>>
    /\ UNCHANGED <<ws, timers, hidden, srv, cam, ctl, ui, subs, nextUid, seen,
                   notif>>

\* The conversations of the server change, the events of the changes arrive
\* in order on the open socket, and the list is fetched and rendered.
NextList ==
    \/ WsOpen(1)
    \/ \E c \in ConvIds : ServerCreate(c)
    \/ \E c \in ConvIds : ServerSummary(c)
    \/ \E c \in ConvIds : ServerDelete(c)
    \/ \E i \in 1..Len(sockets) : WsDeliver(i)
    \/ ListServerRespond
    \/ loadConversations_done
    \/ loadConversations_fail
    \/ startNewConversation_resume

SpecList == Init /\ [][NextList]_vars

(* ---------------------- regeneration specification ------------------- *)
\* One chat submission and one regeneration, with the stop button and the
\* push events that arrive meanwhile.
NextRegen ==
    \/ WsOpen(1)
    \/ \E via \in {"button", "enter"} : FirstSubmit(via, UserText)
    \/ \E c \in ConvIds : CreateDone(1, c)
    \/ \E ok \in BOOLEAN : ChatResponse(1, ok)
    \/ \E tok \in Tokens : Len(subs[1].text) < MaxChunks /\ Chunk(1, tok)
    \/ StreamEnd(1)
    \/ ChatAborted(1)
    \/ StopClick
    \/ CloseModal
    \/ \E k \in 1..Len(pane) : RegenerateClick(k)
    \/ ConfirmClick
    \/ \E ok \in BOOLEAN : RegenResponse(ok)
    \/ RegenNetError
    \/ RegenAborted
    \/ \E tok \in Tokens : RegenChunk(tok)
    \/ RegenEnd
    \/ \E i \in 1..Len(sockets), e \in Events :
            e.type = "message_added" /\ WsMessage(i, e)

SpecRegen == InitOne /\ [][NextRegen]_vars

(* ---------------------- stop button specification -------------------- *)
\* One chat submission and one regeneration while the socket opens, closes
\* and is replaced by the reconnect timer, with the stop button.
NextStop ==
    \/ \E i \in 1..Len(sockets) : WsOpen(i)
    \/ \E i \in 1..Len(sockets) : WsClose(i)
    \/ Tick
    \/ TimerFire
    \/ \E via \in {"button", "enter"} : FirstSubmit(via, UserText)
    \/ \E c \in ConvIds : CreateDone(1, c)
    \/ \E ok \in BOOLEAN : ChatResponse(1, ok)
    \/ \E tok \in Tokens : Len(subs[1].text) < MaxChunks /\ Chunk(1, tok)
    \/ StreamEnd(1)
    \/ ChatAborted(1)
    \/ StopClick
    \/ CloseModal
    \/ \E k \in 1..Len(pane) : RegenerateClick(k)
    \/ ConfirmClick
    \/ \E ok \in BOOLEAN : RegenResponse(ok)
    \/ RegenAborted
    \/ RegenEnd

SpecStop == InitOne /\ [][NextStop]_vars

(* ---------------------- list refresh specification ------------------- *)
\* The socket is open before the server's conversations change, so every
\* change is pushed to the client; no fetch fails.
NextRefresh ==
    \/ WsOpen(1)
    \/ \E c \in ConvIds : sockets[1].readyState = "OPEN" /\ ServerCreate(c)
    \/ \E c \in ConvIds : sockets[1].readyState = "OPEN" /\ ServerDelete(c)
    \/ \E c \in ConvIds : sockets[1].readyState = "OPEN" /\ ServerMessage(c, "m1")
    \/ \E i \in 1..Len(sockets) : WsDeliver(i)
    \/ ListServerRespond
    \/ loadConversations_done
    \/ startNewConversation_resume

SpecRefresh == Init /\ [][NextRefresh]_vars

(* ---------------------- conversation creation specification ---------- *)
\* One chat submission with every answer POST /create_conversation can get:
\* a new conversation, no answer or no JSON, an error status with a JSON body.
NextCreate ==
    \/ WsOpen(1)
    \/ \E via \in {"button", "enter"}, msg \in {<<>>, UserText} : FirstSubmit(via, msg)
    \/ \E c \in ConvIds : CreateDone(1, c)
    \/ CreateFail(1)
    \/ CreateRejected(1)
    \/ \E ok \in BOOLEAN : ChatResponse(1, ok)
    \/ ChatNetError(1)
    \/ \E tok \in Tokens : Len(subs[1].text) < MaxChunks /\ Chunk(1, tok)
    \/ StreamEnd(1)
    \/ ChatAborted(1)
    \/ StopClick
    \/ CloseModal
    \/ startNewConversation_resume
    \/ ListServerRespond
    \/ loadConversations_done
    \/ loadConversations_fail

SpecCreate == InitOne /\ [][NextCreate]_vars

(* ---------------------- stored pair specification -------------------- *)
\* The ids the server gives the user message and the reply of the submission.
Submitted == [user |-> "m3", assistant |-> "m4"]

\* The server has received the /chat request of run 1 and announces what it
\* stores: first the user message, then the reply. Each event is handled by
\* state.ws.onmessage at any time after the request and after the event
\* before it.
PairEvent(i) ==
    /\ subs[1].pc \in {"fetching", "reading", "done"}
    /\ currentConversationId # NoId
    /\ seen.n < 2
    /\ WsMessage(i, Event("message_added", currentConversationId,
                          IF seen.n = 0 THEN Submitted.user
                                        ELSE Submitted.assistant,
                          IF seen.n = 0 THEN "user" ELSE "assistant",
                          <<>>, NoSummary))

NextPair ==
    \/ WsOpen(1)
    \/ \E via \in {"button", "enter"} : FirstSubmit(via, UserText)
    \/ \E c \in ConvIds : CreateDone(1, c)
    \/ \E ok \in BOOLEAN : ChatResponse(1, ok)
    \/ \E tok \in Tokens : Len(subs[1].text) < MaxChunks /\ Chunk(1, tok)
    \/ StreamEnd(1)
    \/ \E i \in 1..Len(sockets) : PairEvent(i)
    \/ startNewConversation_resume
    \/ ListServerRespond
    \/ loadConversations_done

SpecPair == InitOne /\ [][NextPair]_vars

(* ---------------------- conversation loading specification ----------- *)
\* The page is loaded while the server holds two conversations.
InitLoad ==
    /\ sockets = <<[readyState |-> "CONNECTING", inbox |-> <<>>]>>
    /\ ws = 1
    /\ timers = <<>>
    /\ hidden = FALSE
    /\ isLoading = TRUE
    /\ listReq = [st |-> "sent", snap |-> <<>>]
    /\ convList = <<>>
    /\ srv = [clock |-> 2,
              convs |-> [c \in ConvIds |->
                           [present |-> TRUE, summary |-> NoSummary,
                            last_updated |-> IF c = "c1" THEN 1 ELSE 2]]]
    /\ startNewPending = 1
    /\ currentConversationId = NoId
    /\ pane = <<EmptyState>>
    /\ cam = 0
    /\ ctl = [cur |-> 0, aborted |-> {}, next |-> 1]
    /\ ui = IdleUi
    /\ subs = [s \in 1..MaxSubmits |-> IdleSub]
    /\ nextUid = 1
    /\ seen = [n |-> 0, mark |-> NoId]
    /\ notif = NoNotif
    /\ regen = IdleRegen
    /\ convReqs = <<>>
    /\ keepAlive = 0
    /\ wire = NoWire
    /\ wsOut = <<>>

\* The user opens conversations from the list and asks for new ones; the
\* answers arrive in any order.
NextLoad ==
    \/ ListServerRespond
    \/ loadConversations_done
    \/ startNewConversation_resume
    \/ \E c \in ConvIds : loadConversation_call(c)
    \/ \E k \in 1..Len(convReqs) : loadConversation_resume(k)
    \/ \E k \in 1..Len(convReqs) : loadConversation_fail(k)
    \/ \E k \in 1..Len(convReqs) : loadConversation_done(k)
    \/ startNewConversation_call

SpecLoad == InitLoad /\ [][NextLoad]_vars

(* ---------------------- list loader specification -------------------- *)
\* The steps of NextRefresh, and fetches of the list that fail.
NextLoader ==
    \/ WsOpen(1)
    \/ \E c \in ConvIds : sockets[1].readyState = "OPEN" /\ ServerCreate(c)
    \/ \E c \in ConvIds : sockets[1].readyState = "OPEN" /\ ServerDelete(c)
    \/ \E c \in ConvIds : sockets[1].readyState = "OPEN" /\ ServerMessage(c, "m1")
    \/ \E i \in 1..Len(sockets) : WsDeliver(i)
    \/ ListServerRespond
    \/ loadConversations_done
    \/ loadConversations_fail
    \/ startNewConversation_resume

SpecLoader == Init /\ [][NextLoader]_vars

(* ---------------------- the revision of src/unnamed/part_000 ---------- *)
(* The same client at an earlier revision. Its definitions carry the       *)
(* prefix P0_. Its elements have no data-message-id and no buttons: the    *)
(* field id of an element that loadConversation built records the stored   *)
(* message it was built for.                                               *)

\* appendUserMessage(content)
P0_appendUserMessage(p, uid, content) ==
    Append(p, [kind |-> "user", uid |-> uid, id |-> NoId,
               content |-> Plain(content), regen |-> NoId, edit |-> NoId])

\* createAssistantMessage(): an empty bubble at the end of the pane.
P0_createAssistantMessage(p, uid) ==
    Append(p, [kind |-> "assistant", uid |-> uid, id |-> NoId,
               content |-> <<>>, regen |-> NoId, edit |-> NoId])

\* updateAssistantMessage(content): state.currentAssistantMessage is created
\* when it is null, then its innerHTML becomes the render of content. An
\* element that is not in the pane changes nothing that is shown.
\* Gives the pane, state.currentAssistantMessage and the next free uid.
P0_updateAssistantMessage(p, c, uid, content) ==
    LET target == IF c = 0 THEN uid ELSE c
        p1 == IF c = 0 THEN P0_createAssistantMessage(p, uid) ELSE p
    IN [pane |-> setContent(p1, target, Render(content)),
        cam |-> target,
        nextUid |-> IF c = 0 THEN uid + 1 ELSE uid]

\* data.messages of GET /conversations/{c} for the conversation of the
\* running submission: the user message, and the reply once it is stored.
P0_StoredMessages(withReply) ==
    <<[role |-> "user", message_id |-> "m1", content |-> UserText]>>
    \o (IF withReply
        THEN <<[role |-> "assistant", message_id |-> "m2", content |-> <<"t">>]>>
        ELSE <<>>)

\* The loop of loadConversation over data.messages: every assistant message
\* goes through state.currentAssistantMessage, which is null afterwards.
RECURSIVE P0_showMessages(_, _, _)
P0_showMessages(p, uid, msgs) ==
    IF msgs = <<>> THEN p
    ELSE LET msg == Head(msgs)
             p1 == IF msg.role = "user"
                   THEN P0_appendUserMessage(p, uid, msg.content)
                   ELSE P0_updateAssistantMessage(p, 0, uid, msg.content).pane
             built == [p1 EXCEPT ![Len(p1)].id = msg.message_id]
         IN P0_showMessages(built, uid + 1, Tail(msgs))

\* The html of one list entry: id, summary text and timestamp.
P0_RenderList(snap) ==
    LET sorted == SortByUpdated(Present(snap))
    IN [i \in 1..Len(sorted) |->
          [id |-> sorted[i].id,
           summary |-> IF sorted[i].summary = NoSummary
                       THEN [label |-> "No summary", val |-> 0]
                       ELSE [label |-> "text", val |-> sorted[i].summary],
           last_updated |-> sorted[i].last_updated,
           active |-> FALSE]]

\* loadConversations after its awaits: render, then finally isLoading = false.
P0_loadConversations_done ==
    /\ listReq.st = "responded"
    /\ convList' = P0_RenderList(listReq.snap)
    /\ isLoading' = FALSE
    /\ listReq' = NoReq
    /\ UNCHANGED <<convReqs, keepAlive, wire>>
    /\ wsOut' = <<>>
    /\ UNCHANGED <<sockets, ws, timers, hidden, srv, startNewPending,
                   streamVars, seen, notif, regen>>

\* The handler from appendUserMessage to the await of fetch('/chat').
P0_chatBody ==
    /\ pane' = P0_createAssistantMessage(
                   P0_appendUserMessage(pane, nextUid, UserText), nextUid + 1)
    /\ nextUid' = nextUid + 2
    /\ cam' = nextUid + 1
    /\ subs' = [subs EXCEPT ![1].pc = "fetching", ![1].ph = nextUid + 1]

\* The submit event of #chat-form with a message, for the first time.
P0_Submit ==
    /\ \A s \in 1..MaxSubmits : subs[s].pc = "idle"
    /\ ~ui.sendDisabled
    /\ ui' = [ui EXCEPT !.sendDisabled = TRUE]
    /\ IF currentConversationId = NoId
       THEN /\ subs' = [subs EXCEPT ![1].pc = "creating"]
            /\ UNCHANGED <<pane, nextUid, cam>>
       ELSE P0_chatBody
    /\ UNCHANGED <<convReqs, keepAlive, wire>>
    /\ wsOut' = <<>>
    /\ UNCHANGED <<sockets, ws, timers, hidden, isLoading, listReq, convList, srv,
                   startNewPending, currentConversationId, ctl, seen, notif, regen>>

\* POST /create_conversation answers with the new conversation c.
P0_CreateDone(c) ==
    /\ subs[1].pc = "creating"
    /\ ~srv.convs[c].present
    /\ srv' = [clock |-> srv.clock + 1,
               convs |-> [srv.convs EXCEPT ![c] =
                            [present |-> TRUE, summary |-> NoSummary,
                             last_updated |-> srv.clock + 1]]]
    /\ currentConversationId' = c
    /\ loadConversations_call
    /\ P0_chatBody
    /\ UNCHANGED <<convReqs, keepAlive, wire>>
    /\ wsOut' = <<>>
    /\ UNCHANGED <<sockets, ws, timers, hidden, convList, startNewPending, ctl,
                   ui, seen, notif, regen>>

\* The catch and the finally of the submit handler: appendMessage, as the
\* file defines it, adds nothing to the pane.
P0_chatFail ==
    /\ cam' = 0
    /\ ui' = [ui EXCEPT !.sendDisabled = FALSE]
    /\ subs' = [subs EXCEPT ![1].pc = "done", ![1].out = "error"]

\* The response of POST /chat arrives.
P0_ChatResponse(ok) ==
    /\ subs[1].pc = "fetching"
    /\ IF ok
       THEN /\ subs' = [subs EXCEPT ![1].pc = "reading"]
            /\ UNCHANGED <<cam, ui>>
       ELSE P0_chatFail
    /\ UNCHANGED <<convReqs, keepAlive, wire>>
    /\ wsOut' = <<>>
    /\ UNCHANGED <<sockets, ws, timers, hidden, isLoading, listReq, convList, srv,
                   startNewPending, currentConversationId, pane, ctl, nextUid,
                   seen, notif, regen>>

\* reader.read() gives the chunk tok.
P0_Chunk(tok) ==
    /\ subs[1].pc = "reading"
    /\ Len(subs[1].text) < MaxChunks
    /\ LET text == Append(subs[1].text, tok)
           r == P0_updateAssistantMessage(pane, cam, nextUid, text)
       IN /\ subs' = [subs EXCEPT ![1].text = text]
          /\ pane' = r.pane
          /\ cam' = r.cam
          /\ nextUid' = r.nextUid
    /\ UNCHANGED <<convReqs, keepAlive, wire>>
    /\ wsOut' = <<>>
    /\ UNCHANGED <<sockets, ws, timers, hidden, isLoading, listReq, convList, srv,
                   startNewPending, currentConversationId, ctl, ui, seen, notif,
                   regen>>

\* reader.read() gives done: the finally enables the send button;
\* state.currentAssistantMessage stays.
P0_StreamEnd ==
    /\ subs[1].pc = "reading"
    /\ subs' = [subs EXCEPT ![1].pc = "done", ![1].out = "end"]
    /\ ui' = [ui EXCEPT !.sendDisabled = FALSE]
    /\ UNCHANGED <<convReqs, keepAlive, wire>>
    /\ wsOut' = <<>>
    /\ UNCHANGED <<sockets, ws, timers, hidden, isLoading, listReq, convList, srv,
                   startNewPending, currentConversationId, pane, cam, ctl,
                   nextUid, seen, notif, regen>>

\* state.ws.onmessage with a message_added event for conversation c:
\* loadConversations(), and loadConversation(c) up to its await when c is
\* the displayed conversation.
P0_MessageAdded(i, c) ==
    /\ sockets[i].readyState = "OPEN"
    /\ seen.n < MaxEvents
    /\ seen' = [seen EXCEPT !.n = @ + 1]
    /\ loadConversations_call
    /\ IF currentConversationId = c
       THEN convReqs' = Append(convReqs, [id |-> c, st |-> "sent"])
       ELSE UNCHANGED convReqs
    /\ UNCHANGED <<keepAlive, wire>>
    /\ wsOut' = <<>>
    /\ UNCHANGED <<sockets, ws, timers, hidden, convList, srv, startNewPending,
                   streamVars, notif, regen>>

\* The answer to the k-th loadConversation has arrived and is parsed: the
\* pane is emptied and rebuilt from the stored messages.
P0_loadConversation_resume(k, withReply) ==
    /\ convReqs[k].st = "sent"
    /\ convReqs' = [convReqs EXCEPT ![k].st = "done"]
    /\ currentConversationId' = convReqs[k].id
    /\ pane' = P0_showMessages(<<>>, nextUid, P0_StoredMessages(withReply))
    /\ nextUid' = nextUid + Len(P0_StoredMessages(withReply))
    /\ cam' = IF withReply THEN 0 ELSE cam
    /\ UNCHANGED <<keepAlive, wire>>
    /\ wsOut' = <<>>
    /\ UNCHANGED <<sockets, ws, timers, hidden, isLoading, listReq, convList, srv,
                   startNewPending, ctl, ui, subs, seen, notif, regen>>

\* The number of DOMContentLoaded listeners of the file that call
\* connectWebSocket: through initializeCore, and directly in two more.
P0_ConnectsAtLoad == 3

\* The state when the DOMContentLoaded listeners have returned: the list fetch
\* is issued, the pane is empty, and every connectWebSocket has created a
\* socket, the last of which is state.ws, and set a keepalive interval.
P0_Init ==
    /\ sockets = [i \in 1..P0_ConnectsAtLoad |->
                    [readyState |-> "CONNECTING", inbox |-> <<>>]]
    /\ ws = P0_ConnectsAtLoad
    /\ timers = <<>>
    /\ hidden = FALSE
    /\ isLoading = TRUE
    /\ listReq = [st |-> "sent", snap |-> <<>>]
    /\ convList = <<>>
    /\ srv = InitSrv
    /\ startNewPending = 0
    /\ currentConversationId = NoId
    /\ pane = <<>>
    /\ cam = 0
    /\ ctl = [cur |-> 0, aborted |-> {}, next |-> 1]
    /\ ui = IdleUi
    /\ subs = [s \in 1..MaxSubmits |-> IdleSub]
    /\ nextUid = 1
    /\ seen = [n |-> 0, mark |-> NoId]
    /\ notif = NoNotif
    /\ regen = IdleRegen
    /\ convReqs = <<>>
    /\ keepAlive = P0_ConnectsAtLoad
    /\ wire = NoWire
    /\ wsOut = <<>>

\* connectWebSocket: a new socket becomes state.ws and one more keepalive
\* interval is set; no interval is ever cleared.
P0_connectWebSocket ==
    /\ connectWebSocket
    /\ keepAlive' = keepAlive + 1

\* Socket i fails to connect or its connection drops: onclose sets the
\* reconnect timer.
P0_WsClose(i) ==
    /\ Live(i)
    /\ Len(sockets) + Len(timers) < P0_ConnectsAtLoad + MaxSockets - 1
    /\ sockets' = [sockets EXCEPT ![i] = [readyState |-> "CLOSED", inbox |-> <<>>]]
    /\ onclose
    /\ UNCHANGED <<convReqs, keepAlive, wire>>
    /\ wsOut' = <<>>
    /\ UNCHANGED <<ws, hidden, isLoading, listReq, convList, srv, startNewPending,
                   streamVars, seen, notif, regen>>

\* A due reconnect timer runs connectWebSocket.
P0_TimerFire ==
    /\ timers # <<>>
    /\ Head(timers) = 0
    /\ timers' = Tail(timers)
    /\ P0_connectWebSocket
    /\ UNCHANGED <<convReqs, wire>>
    /\ wsOut' = <<>>
    /\ UNCHANGED <<hidden, isLoading, listReq, convList, srv, startNewPending,
                   streamVars, seen, notif, regen>>

\* The visibilitychange listener, on the event that sets document.hidden to h.
P0_visibilitychange(h) ==
    /\ h # hidden
    /\ hidden' = h
    /\ IF ~h
       THEN /\ IF ws = 0 \/ sockets[ws].readyState # "OPEN"
               THEN /\ Len(sockets) + Len(timers) < P0_ConnectsAtLoad + MaxSockets - 1
                    /\ P0_connectWebSocket
               ELSE UNCHANGED <<sockets, ws, keepAlive>>
            /\ loadConversations_call
       ELSE /\ UNCHANGED <<sockets, ws, keepAlive, isLoading, listReq>>
    /\ UNCHANGED <<convReqs, wire>>
    /\ wsOut' = <<>>
    /\ UNCHANGED <<timers, convList, srv, startNewPending, streamVars, seen,
                   notif, regen>>

\* One of the keepalive intervals is due: its callback sends on state.ws when
\* that socket is OPEN.
P0_keepAliveInterval ==
    /\ keepAlive > 0
    /\ wsOut' = IF sockets[ws].readyState = "OPEN" THEN <<"keepalive">> ELSE <<>>
    /\ UNCHANGED <<sockets, ws, timers, hidden, isLoading, listReq, convList, srv,
                   startNewPending, streamVars, seen, notif, regen, convReqs,
                   keepAlive, wire>>

\* The push channel: sockets open and close, reconnect timers and keepalive
\* intervals run, the tab is hidden and shown.
P0_NextChannel ==
    \/ \E i \in 1..Len(sockets) : WsOpen(i)
    \/ \E i \in 1..Len(sockets) : P0_WsClose(i)
    \/ Tick
    \/ P0_TimerFire
    \/ \E h \in BOOLEAN : P0_visibilitychange(h)
    \/ P0_keepAliveInterval
    \/ ListServerRespond
    \/ P0_loadConversations_done
    \/ loadConversations_fail

P0_SpecChannel == P0_Init /\ [][P0_NextChannel]_vars

\* One chat submission and the message_added events that arrive meanwhile.
P0_NextStream ==
    \/ \E i \in 1..Len(sockets) : WsOpen(i)
    \/ P0_Submit
    \/ \E c \in ConvIds : P0_CreateDone(c)
    \/ \E ok \in BOOLEAN : P0_ChatResponse(ok)
    \/ \E tok \in Tokens : P0_Chunk(tok)
    \/ P0_StreamEnd
    \/ \E i \in 1..Len(sockets), c \in ConvIds : P0_MessageAdded(i, c)
    \/ \E k \in 1..Len(convReqs), withReply \in BOOLEAN :
            P0_loadConversation_resume(k, withReply)
    \/ ListServerRespond
    \/ P0_loadConversations_done
    \/ loadConversations_fail

P0_SpecStream == P0_Init /\ [][P0_NextStream]_vars

(* ------------------------------ properties ---------------------------- *)
\* C3: connectWebSocket is idempotent: whatever calls it (initialisation, a
\* return to the visible tab, the reconnect timer), the client never holds
\* more than one socket that is connecting or open.
C3_AtMostOneLiveSocket == Cardinality(LiveSockets) <= 1

\* The step closes a socket that was connecting or open.
ClosesSocket ==
    \E i \in 1..Len(sockets) :
        /\ sockets[i].readyState \in {"CONNECTING", "OPEN"}
        /\ sockets'[i].readyState = "CLOSED"

\* C5: every close of the socket, an initial connection failure included,
\* arms one reconnect timer of ReconnectDelay and shows neither modal nor
\* toast; a timer is consumed only when it is due, by a connect attempt that
\* shows nothing either; and every armed timer is followed by a new attempt,
\* however many attempts have failed before.
C5_ReconnectAfterEveryClose ==
    /\ [][ClosesSocket =>
            /\ timers' = Append(timers, ReconnectDelay)
            /\ notif' = notif]_vars
    /\ [][Len(timers') < Len(timers) =>
            /\ Head(timers) = 0
            /\ Len(sockets') = Len(sockets) + 1
            /\ sockets'[Len(sockets')].readyState = "CONNECTING"
            /\ ws' = Len(sockets')
            /\ notif' = notif]_vars
    /\ \A n \in 0..MaxSockets :
            (timers # <<>> /\ Len(sockets) = n) ~> (Len(sockets) > n)

\* Two attempts have failed in a row and each was followed by a new attempt.
C5_Witness ==
    /\ Len(sockets) = 3
    /\ sockets[1].readyState = "CLOSED"
    /\ sockets[2].readyState = "CLOSED"
    /\ Live(3)
    /\ timers = <<>>
    /\ hidden = FALSE
    /\ notif = NoNotif

\* The step establishes the connection of a socket.
OpensSocket ==
    \E i \in 1..Len(sockets) :
        /\ sockets[i].readyState = "CONNECTING"
        /\ sockets'[i].readyState = "OPEN"

\* C6: on every open of the socket the client reloads its data: once the
\* step is over a fetch of the conversation list is in flight.
C6_OpenReloads == [][OpensSocket => isLoading']_vars

\* C2: a submission made while a stream is active does not start a second
\* one: at most one run of the submit handler is between its start and its
\* finally, and a chunk changes no message element but the placeholder that
\* the run receiving it created.
C2_OneStreamAtATime ==
    /\ [](Cardinality(ActiveSubs) <= 1)
    /\ [][\A s \in 1..MaxSubmits, tok \in Tokens :
            Chunk(s, tok) =>
                \A k \in 1..Len(pane) :
                    pane'[k] # pane[k] => pane[k].uid = subs[s].ph]_vars

\* The step ends run s by a failure of the server or the network.
FailsFromOutside(s) == CreateFail(s) \/ ChatResponse(s, FALSE) \/ ChatNetError(s)

\* C9: a run that was stopped before its first chunk, during the
\* create_conversation request included, and that neither the server nor the
\* network fails, ends without an error notification and with the send
\* button enabled and shown and the stop button hidden.
C9_StopBeforeChunkIsSilent ==
    [][\A s \in 1..MaxSubmits :
        (/\ subs[s].stop
         /\ Active(s)
         /\ subs'[s].pc = "done"
         /\ ~FailsFromOutside(s))
        => (notif' = notif /\ ui' = IdleUi)]_vars

\* C10: when the chat request of a run ends by a not-ok status or by a
\* network error before or between chunks, the step shows exactly one error
\* modal, which closeModal dismisses, and leaves every message element, the
\* placeholder with what it has rendered included, as it is.
C10_FailureShowsOneModal ==
    [][\A s \in 1..MaxSubmits :
        (ChatResponse(s, FALSE) \/ ChatNetError(s)) =>
            /\ notif'.modals = notif.modals + 1
            /\ ~notif'.hidden
            /\ notif'.type = "error"
            /\ closeModal(notif').hidden
            /\ pane' = pane]_vars

\* A stream broke after a chunk: the modal is up and the placeholder still
\* shows the rendered chunk.
C10_Witness ==
    \E s \in 1..MaxSubmits :
        /\ subs[s].out = "error"
        /\ subs[s].text # <<>>
        /\ ~notif.hidden
        /\ notif.type = "error"
        /\ notif.modals = 1
        /\ \E k \in 1..Len(pane) :
            /\ pane[k].kind = "assistant"
            /\ pane[k].content = Render(subs[s].text)

\* The single message_added event that was handled came for the displayed
\* conversation with an id, after run 1 had created its placeholder, and
\* the stream of run 1 delivered its chunks and ended.
OneStreamOneEvent ==
    /\ subs[1].pc = "done"
    /\ subs[1].out = "end"
    /\ subs[1].text # <<>>
    /\ seen.n = 1
    /\ seen.mark # NoId

\* C1: after one submission whose stream delivers c1..cn and one
\* message_added event with id m for the displayed conversation, handled at
\* any point after the placeholder was created, the pane holds what it held
\* before, the user message, and exactly one assistant message, which shows
\* the render of c1+...+cn and has the identifier m.
C1_OneAssistantMessageWithId ==
    OneStreamOneEvent =>
        LET n == Len(pane) IN
        /\ n >= 2
        /\ SubSeq(pane, 1, n - 2) \in {<<>>, StoredPane}
        /\ pane[n - 1].kind = "user"
        /\ pane[n].kind = "assistant"
        /\ pane[n].content = Render(subs[1].text)
        /\ pane[n].id = seen.mark

\* The stream delivered two chunks, the second of which changes what the
\* first rendered to, and the event's id is on the message.
C1_Witness ==
    /\ OneStreamOneEvent
    /\ subs[1].text = <<"f", "t">>
    /\ pane[Len(pane)].id = "m1"
    /\ pane[Len(pane)].content = Render(<<"f", "t">>)

\* C4: a message_added event for the displayed conversation that finds the
\* last element of the pane without an identifier gives that element the
\* event's message_id and changes neither the content of any element nor the
\* number of elements.
C4_AttachIdKeepsContent ==
    [][\A i \in 1..Len(sockets), e \in Events :
        (/\ e.type = "message_added"
         /\ e.conversation_id = currentConversationId
         /\ pane # <<>>
         /\ pane[Len(pane)].id = NoId
         /\ seen' # seen
         /\ WsMessage(i, e))
        => /\ Len(pane') = Len(pane)
           /\ pane'[Len(pane)].id = e.message_id
           /\ \A k \in 1..Len(pane) :
                /\ pane'[k].content = pane[k].content
                /\ pane'[k].kind = pane[k].kind
                /\ pane'[k].uid = pane[k].uid
                /\ k < Len(pane) => pane'[k] = pane[k]]_vars

\* The streamed message has rendered chunks and carries the id of an event
\* while its stream is still being read.
C4_Witness ==
    /\ subs[1].pc = "reading"
    /\ subs[1].text # <<>>
    /\ seen.mark = "m2"
    /\ pane[Len(pane)].id = "m2"
    /\ pane[Len(pane)].content = Render(subs[1].text)

\* The event refers to a conversation or a message the client does not hold:
\* not the displayed conversation, no element with the message id, no list
\* entry of the conversation.
Untracked(e) ==
    IF e.type \in ListKinds THEN e.conversation_id # currentConversationId
    ELSE IF e.type = "message_edited" THEN FindMessage(pane, e.message_id) = 0
    ELSE \A k \in 1..Len(convList) : convList[k].id # e.conversation_id

\* C7: an event of any of the five kinds that refers to a conversation or
\* message the client does not hold leaves the message pane as it is and
\* calls for a refresh of the conversation list: a list fetch is running
\* once the event is handled.
C7_UntrackedEventRefreshesList ==
    [][\A i \in 1..Len(sockets), e \in Events :
        (seen' # seen /\ Untracked(e) /\ WsMessage(i, e))
            => (pane' = pane /\ isLoading')]_vars

\* C8: the events of one connection take effect on the conversation list in
\* the order received, and the list never goes back to an older state of
\* the server after it has shown a newer one: for a conversation that stays
\* in the list, neither the summary shown nor the time of the last update
\* shown is ever replaced by an older one.
C8_ListNeverGoesBack ==
    [][\A k \in 1..Len(convList), j \in 1..Len(convList') :
        convList[k].id = convList'[j].id =>
            /\ convList'[j].summary.val >= convList[k].summary.val
            /\ convList'[j].last_updated >= convList[k].last_updated]_vars

\* C14: after the k-th chunk of a chat stream its placeholder shows the
\* render of c1+...+ck, the whole buffer rendered anew, and so after the
\* last chunk the render of c1+...+cn.
C14_PlaceholderShowsRenderOfBuffer ==
    [][\A s \in 1..MaxSubmits, tok \in Tokens :
        Chunk(s, tok) =>
            \A k \in 1..Len(pane') :
                pane'[k].uid = subs[s].ph =>
                    pane'[k].content = Render(subs'[s].text)]_vars

\* C19: once the user has clicked stop while a chat stream was running, no
\* chunk of that stream is rendered any more, and when the run ends the send
\* button is enabled and state.abortController is null.
C19_CancelStopsUpdates ==
    [][\A s \in 1..MaxSubmits :
        /\ \A tok \in Tokens : ~(subs[s].cancel /\ Chunk(s, tok))
        /\ (subs[s].cancel /\ Active(s) /\ subs'[s].pc = "done")
            => (~ui'.sendDisabled /\ ctl'.cur = 0)]_vars

\* C20: every exit of a run of the submit handler that got past the
\* empty-input check, by the end of the stream, an error or a cancellation,
\* and with or without an id on the assistant element, leaves the send
\* button enabled and shown, the stop button hidden, and
\* state.abortController and state.currentAssistantMessage null.
C20_ExitReleasesControls ==
    [][\A s \in 1..MaxSubmits :
        (Active(s) /\ subs'[s].pc = "done") =>
            /\ ui' = IdleUi
            /\ ctl'.cur = 0
            /\ cam' = 0]_vars

\* A run has ended by an error after a chunk while another run is still
\* reading: the controls are released all the same.
C20_Witness ==
    \E s, r \in 1..MaxSubmits :
        /\ subs[s].pc = "done"
        /\ subs[s].out = "error"
        /\ subs[r].pc = "reading"
        /\ ui = IdleUi
        /\ ctl.cur = 0
        /\ cam = 0

\* C17: a message_added event for a conversation other than the displayed
\* one changes neither the message pane nor state.currentConversationId,
\* nor anything else but the list loader, of which it requests a refresh.
C17_OtherConversationOnlyRefreshes ==
    [][\A i \in 1..Len(sockets), e \in Events :
        (/\ e.type = "message_added"
         /\ e.conversation_id # currentConversationId
         /\ seen' # seen
         /\ WsMessage(i, e))
        => /\ pane' = pane
           /\ currentConversationId' = currentConversationId
           /\ convList' = convList
           /\ UNCHANGED <<cam, ctl, ui, subs, nextUid, notif, startNewPending>>
           /\ isLoading'
           /\ ~isLoading => listReq'.st = "sent"]_vars

\* A message_added event was handled while the pane showed the stored
\* conversation c1 (so it was for another conversation, or the last element
\* had its id): the pane is as loadConversation built it and a list fetch
\* is running.
C17_Witness ==
    /\ seen.n = 1
    /\ seen.mark = NoId
    /\ currentConversationId = "c1"
    /\ pane = StoredPane
    /\ isLoading
    /\ listReq.st = "sent"
    /\ convList = <<>>
    /\ \A s \in 1..MaxSubmits : subs[s].pc = "idle"

\* C18: when the tab becomes visible and state.ws is not OPEN, one new
\* socket is created and becomes state.ws; when state.ws is OPEN no socket
\* is created; either way a refresh of the conversation list is requested.
\* When the tab becomes hidden nothing else changes.
C18_VisibleReconnectsAndRefreshes ==
    [][hidden' # hidden =>
        IF hidden'
        THEN UNCHANGED <<sockets, ws, timers, isLoading, listReq, convList, srv,
                         startNewPending, streamVars, seen, notif>>
        ELSE /\ (ws = 0 \/ sockets[ws].readyState # "OPEN") =>
                    /\ Len(sockets') = Len(sockets) + 1
                    /\ SubSeq(sockets', 1, Len(sockets)) = sockets
                    /\ sockets'[Len(sockets')].readyState = "CONNECTING"
                    /\ ws' = Len(sockets')
             /\ (ws # 0 /\ sockets[ws].readyState = "OPEN") =>
                    /\ sockets' = sockets
                    /\ ws' = ws
             /\ isLoading'
             /\ ~isLoading => listReq'.st = "sent"
             /\ UNCHANGED <<timers, convList, streamVars, notif>>]_vars

\* The tab came back while the first socket was still connecting: a second
\* socket exists although none has closed, and a list fetch is running.
C18_Witness ==
    /\ ~hidden
    /\ Len(sockets) = 2
    /\ sockets[1].readyState = "CONNECTING"
    /\ sockets[2].readyState = "CONNECTING"
    /\ ws = 2
    /\ timers = <<>>
    /\ isLoading

\* C15: handling the same message_added event for the displayed
\* conversation twice in a row gives the pane that handling it once gives:
\* the same identifiers and the same regenerate and edit bindings.
C15_AttachIdIdempotent ==
    \A m \in MsgIds \cup {NoId} :
        attachId(attachId(pane, m), m) = attachId(pane, m)

\* The user message and the placeholder of a running stream are both
\* without an id, and the event's id goes to the placeholder.
C15_Witness ==
    /\ Len(pane) >= 2
    /\ pane[Len(pane)].id = NoId
    /\ pane[Len(pane) - 1].id = NoId
    /\ pane[Len(pane)].kind = "assistant"
    /\ subs[1].pc = "reading"
    /\ attachId(pane, "m1") # pane
    /\ attachId(pane, "m1")[Len(pane)].id = "m1"

\* The id on which the regenerate (what = "regen") or the edit (what =
\* "edit") control of the element el acts when it is used: the id bound into
\* its handler, or dataset.messageId read at the click.
ActsOn(el, what) == IF el[what] = "dataset" THEN el.id ELSE el[what]

\* C13: a message_added event that attaches an id to an element without one
\* makes the element's controls act on that id, and they keep doing so:
\* regenerate and edit of every assistant element with an id, and edit of
\* every user element with an id, act on the element's id.
C13_AffordancesActOnAttachedId ==
    /\ [](\A k \in 1..Len(pane) :
            pane[k].id # NoId =>
                /\ pane[k].kind = "assistant" =>
                        /\ ActsOn(pane[k], "regen") = pane[k].id
                        /\ ActsOn(pane[k], "edit") = pane[k].id
                /\ pane[k].kind = "user" => ActsOn(pane[k], "edit") = pane[k].id)
    /\ [][\A i \in 1..Len(sockets), e \in Events :
            (/\ e.type = "message_added"
             /\ e.conversation_id = currentConversationId
             /\ e.message_id # NoId
             /\ pane # <<>>
             /\ pane[Len(pane)].id = NoId
             /\ pane[Len(pane)].kind # "empty"
             /\ seen' # seen
             /\ WsMessage(i, e))
            => LET el == pane'[Len(pane)] IN
               /\ el.id = e.message_id
               /\ ActsOn(el, "edit") = e.message_id
               /\ el.kind = "assistant" => ActsOn(el, "regen") = e.message_id]_vars

\* The event's id was attached to the placeholder and a later chunk has
\* re-rendered it: regenerate is bound to the id, edit reads it at the click.
C13_Witness ==
    /\ subs[1].pc = "reading"
    /\ subs[1].text # <<>>
    /\ pane[Len(pane)].kind = "assistant"
    /\ pane[Len(pane)].id = "m1"
    /\ pane[Len(pane)].regen = "m1"
    /\ pane[Len(pane)].edit = "dataset"
    /\ seen.mark = "m1"

\* C16: for each of the five event kinds, handling the same event twice in
\* succession leaves the displayed conversation id, the message pane with
\* its contents and identifiers, and the summary texts as handling it once
\* does.
C16_EventsIdempotent ==
    \A e \in Events :
        LET once == eventEffect(Shown, e)
        IN once # Shown => eventEffect(once, e) = once

\* Two events were handled on the stored conversation and the assistant
\* message shows the content of a message_edited event.
C16_Witness ==
    /\ seen.n = 2
    /\ currentConversationId = "c1"
    /\ Len(pane) = 2
    /\ pane[2].id = "m2"
    /\ pane[2].content = Render(<<"f">>)
    /\ pane[1] = StoredPane[1]

\* C11: when a regeneration ends because the controller whose signal its
\* request carries was aborted, no error notification comes up and the
\* content of the message is not replaced by a failure text.
C11_RegenCancelIsSilent ==
    [][RegenAborted => (notif' = notif /\ pane' = pane)]_vars

\* C12: a request to /regenerate_response carries the id of an existing
\* message, never an absent one.
C12_RegenCarriesMessageId ==
    regen.pc \in {"fetching", "reading"} => regen.mid # NoId


\* C21: a click on stop aborts state.abortController if one is set and
\* changes no controller when none is set, and it sends stop_generation over
\* state.ws if and only if that socket is OPEN: with a socket that is
\* connecting or closed the abort still happens and nothing is sent. No
\* other step sends anything.
C21_StopAbortsAndSignals ==
    /\ [][StopClick =>
            /\ ctl.cur # 0 => ctl' = [ctl EXCEPT !.aborted = @ \cup {ctl.cur}]
            /\ ctl.cur = 0 => ctl' = ctl
            /\ wsOut' = IF ws # 0 /\ sockets[ws].readyState = "OPEN"
                         THEN <<"stop_generation">>
                         ELSE <<>>]_vars
    /\ [](wsOut # <<>> =>
            /\ wsOut = <<"stop_generation">>
            /\ ws # 0
            /\ sockets[ws].readyState = "OPEN")

\* Stop was clicked while the socket was closed and its successor not yet
\* created: the stream's controller is aborted and nothing was sent.
C21_Witness ==
    /\ subs[1].pc \in {"fetching", "reading"}
    /\ subs[1].cancel
    /\ subs[1].ctrl \in ctl.aborted
    /\ sockets[ws].readyState = "CLOSED"
    /\ wire = NoWire
    /\ wsOut = <<>>


\* Nothing is under way: no list fetch, no event queued, no
\* startNewConversation waiting.
ListAtRest ==
    /\ listReq = NoReq
    /\ ~isLoading
    /\ startNewPending = 0
    /\ \A i \in 1..Len(sockets) : sockets[i].inbox = <<>>

\* C22: a conversation_created, conversation_deleted or message_added event
\* that is handled while a list fetch is in flight still leads to a further
\* fetch: once every event has been handled and every fetch has been
\* rendered, the list shows the conversations of the server as they are
\* after the last change.
C22_RefreshNotLost ==
    ListAtRest => convList = RenderList(Snapshot, currentConversationId)


\* The step takes run s of the submit handler past the check of the input.
Starts(s) == subs[s].pc = "idle" /\ subs'[s].pc # "idle"

\* C23: a submission issues POST /create_conversation if and only if
\* state.currentConversationId is null when the handler runs, and it does so
\* before the user message is appended; the conversation_id that a /chat
\* request carries is never null; and when the creation fails, by the
\* network, the body or the status of the response, the run ends without a
\* /chat request and without a user message.
C23_CreateBeforeChat ==
    [][\A s \in 1..MaxSubmits :
        /\ Starts(s) =>
            /\ subs'[s].pc = "creating" <=> currentConversationId = NoId
            /\ subs'[s].pc = "creating" => pane' = pane
        /\ (subs[s].pc # "fetching" /\ subs'[s].pc = "fetching")
            => currentConversationId' # NoId
        /\ (subs[s].pc = "creating" /\ subs'[s].pc # "creating"
            /\ currentConversationId' = NoId)
            => (subs'[s].pc = "done" /\ pane' = pane)]_vars


\* C24: when the server announces both the user message and the reply of a
\* submission, then whenever the two events are handled, the user message's
\* id is never put on an assistant element, and once both are handled the
\* element of the user message has the user message's id and the element of
\* the reply has the reply's id.
C24_IdsGoToTheirMessages ==
    /\ \A k \in 1..Len(pane) :
            pane[k].kind = "assistant" => pane[k].id # Submitted.user
    /\ (seen.n = 2 /\ subs[1].pc \in {"fetching", "reading", "done"}) =>
            /\ pane[Len(pane) - 1].kind = "user"
            /\ pane[Len(pane) - 1].id = Submitted.user
            /\ pane[Len(pane)].kind = "assistant"
            /\ pane[Len(pane)].id = Submitted.assistant


\* The identifiers of the messages in the pane, in order.
PaneIds(p) ==
    LET msgs == SelectSeq(p, LAMBDA el : el.kind # "empty")
    IN [k \in 1..Len(msgs) |-> msgs[k].id]

\* Every call of loadConversation and of startNewConversation has run to its
\* end, and at least one conversation was opened and none failed to load.
LoadsAtRest ==
    /\ convReqs # <<>>
    /\ \A k \in 1..Len(convReqs) : convReqs[k].st = "done"
    /\ startNewPending = 0

\* C25: once every answer to the loadConversation and startNewConversation
\* calls made has been processed, in whatever order the answers arrived, the
\* pane shows the messages of the conversation state.currentConversationId
\* names, and no message when it names none.
C25_PaneShowsCurrentConversation ==
    LoadsAtRest =>
        PaneIds(pane) =
            IF currentConversationId = NoId THEN <<>>
            ELSE [k \in 1..Len(StoredMessages(currentConversationId)) |->
                    StoredMessages(currentConversationId)[k].message_id]


\* C26: while run s of the submit handler waits for its /chat request or
\* reads its stream, state.abortController is the controller whose signal
\* that request carries, so that a stop click aborts it, also when a
\* regeneration starts or ends meanwhile.
C26_ControllerIsTheStreams ==
    \A s \in 1..MaxSubmits :
        subs[s].pc \in {"fetching", "reading"} => ctl.cur = subs[s].ctrl


\* C27: at most one GET /conversations of loadConversations is in flight:
\* state.isLoading is true exactly while one is, a call made meanwhile
\* issues no request and leaves the list as it is, and when the call in
\* flight finishes, by rendering the answer or by an error of the fetch or
\* of the data, state.isLoading is false again.
C27_OneListFetchInFlight ==
    /\ [](isLoading <=> listReq.st \in {"sent", "responded"})
    /\ [][isLoading =>
            \/ listReq' = listReq /\ isLoading' /\ convList' = convList
            \/ /\ listReq.st = "sent"
               /\ listReq'.st = "responded"
               /\ isLoading'
               /\ convList' = convList
            \/ listReq' = NoReq /\ ~isLoading']_vars
    /\ [][loadConversations_fail => convList' = convList]_vars

\* The fetch in flight was answered before the last change on the server,
\* and the event of that change has been handled since: its call of
\* loadConversations came while the fetch was in flight and issued nothing.
C27_Witness ==
    /\ isLoading
    /\ listReq.st = "responded"
    /\ listReq.snap # Snapshot
    /\ srv.clock > 0
    /\ startNewPending = 0
    /\ sockets[1].readyState = "OPEN"
    /\ sockets[1].inbox = <<>>


\* The assistant elements of the pane p.
AssistantElements(p) == {k \in 1..Len(p) : p[k].kind = "assistant"}

\* C28: in the revision of part_000, when a message_added event for the
\* displayed conversation is handled during the stream of the first
\* submission, the reply stays a single assistant element: after every
\* chunk the pane holds one assistant element, it shows the render of the
\* chunks so far, and it is not an element that loadConversation built for
\* a stored message.
C28_ReplyStaysOneElement ==
    [][\A tok \in Tokens :
        P0_Chunk(tok) =>
            /\ Cardinality(AssistantElements(pane')) = 1
            /\ \A k \in AssistantElements(pane') :
                /\ pane'[k].content = Render(subs'[1].text)
                /\ pane'[k].id = NoId]_vars


\* C29: in the revision of part_000 at most one keepalive interval is
\* active, however often connectWebSocket has run, so that one keepalive
\* message at most is sent in each period of 30 seconds.
C29_OneKeepAliveInterval == keepAlive <= 1

(* ------------------- the bytes of the streamed reply ------------------ *)
\* What the server streams: the reply is a text of at most MaxChars
\* characters out of 'a' (U+0061, one byte), e-acute (U+00E9, two bytes) and
\* the euro sign (U+20AC, three bytes).
Chars == {97, 233, 8364}

Texts == UNION {[1..n -> Chars] : n \in 0..MaxChars}

\* U+FFFD, what a decoder puts in the place of a malformed sequence.
Replacement == 65533

\* UTF-8 of one code point below U+10000.
EncodeChar(cp) ==
    IF cp < 128 THEN <<cp>>
    ELSE IF cp < 2048 THEN <<192 + (cp \div 64), 128 + (cp % 64)>>
    ELSE <<224 + (cp \div 4096), 128 + ((cp \div 64) % 64), 128 + (cp % 64)>>

RECURSIVE Encode(_)
Encode(text) ==
    IF text = <<>> THEN <<>> ELSE EncodeChar(Head(text)) \o Encode(Tail(text))

\* The UTF-8 decoder behind TextDecoder: cp is the code point collected so
\* far, need the number of continuation bytes still expected, lo..hi the
\* range the next one must lie in.  A byte that cannot continue the sequence
\* ends it with a replacement character and is looked at again; the end of
\* the input inside a sequence ends it with a replacement character.
RECURSIVE utf8(_, _, _, _, _)
utf8(bytes, cp, need, lo, hi) ==
    IF bytes = <<>>
    THEN IF need # 0 THEN <<Replacement>> ELSE <<>>
    ELSE LET b == Head(bytes)
             rest == Tail(bytes)
         IN IF need = 0
            THEN IF b <= 127 THEN <<b>> \o utf8(rest, 0, 0, 128, 191)
                 ELSE IF b \in 194..223 THEN utf8(rest, b - 192, 1, 128, 191)
                 ELSE IF b \in 224..239
                      THEN utf8(rest, b - 224, 2,
                                IF b = 224 THEN 160 ELSE 128,
                                IF b = 237 THEN 159 ELSE 191)
                 ELSE IF b \in 240..244
                      THEN utf8(rest, b - 240, 3,
                                IF b = 240 THEN 144 ELSE 128,
                                IF b = 244 THEN 143 ELSE 191)
                 ELSE <<Replacement>> \o utf8(rest, 0, 0, 128, 191)
            ELSE IF b \notin lo..hi
                 THEN <<Replacement>> \o utf8(bytes, 0, 0, 128, 191)
                 ELSE IF need = 1
                      THEN <<cp * 64 + (b - 128)>> \o utf8(rest, 0, 0, 128, 191)
                      ELSE utf8(rest, cp * 64 + (b - 128), need - 1, 128, 191)

\* decoder.decode(value): the call passes no options, so the decoder treats
\* value as the whole input: it drops a byte order mark at its start, ends an
\* unfinished sequence at its end and keeps nothing for the next call.
decode(value) ==
    IF Len(value) >= 3 /\ SubSeq(value, 1, 3) = <<239, 187, 191>>
    THEN utf8(SubSeq(value, 4, Len(value)), 0, 0, 128, 191)
    ELSE utf8(value, 0, 0, 128, 191)

\* The reply as marked.parse sees it: none of Chars starts a code fence.
AsTokens(text) == [i \in 1..Len(text) |-> "t"]

\* One turn of the read loop of the submit handler, with the bytes of the
\* chunk: reader.read() gives the next n bytes of the body.
ReadBytes(s, n) ==
    /\ subs[s].pc = "reading"
    /\ subs[s].ctrl \notin ctl.aborted
    /\ n \in 1..(Len(wire.all) - wire.pos)
    /\ LET value == SubSeq(wire.all, wire.pos + 1, wire.pos + n)
           chunk == decode(value)
           responseText == subs[s].text \o chunk
           r == updateAssistantMessage(pane, cam, nextUid, AsTokens(responseText))
       IN /\ subs' = [subs EXCEPT ![s].text = responseText]
          /\ pane' = r.pane
          /\ cam' = r.cam
          /\ nextUid' = r.nextUid
    /\ wire' = [wire EXCEPT !.pos = @ + n]
    /\ UNCHANGED regen
    /\ UNCHANGED <<convReqs, keepAlive>>
    /\ wsOut' = <<>>
    /\ UNCHANGED <<sockets, ws, timers, hidden, isLoading, listReq, convList, srv,
                   startNewPending, currentConversationId, ctl, ui, seen, notif>>

\* The body is read to its end.
BodyEnd(s) ==
    /\ wire.pos = Len(wire.all)
    /\ StreamEnd(s)

\* The page shows a stored conversation; the reply the server will stream to
\* the next message is any of Texts.
InitDecode ==
    /\ sockets = <<[readyState |-> "CONNECTING", inbox |-> <<>>]>>
    /\ ws = 1
    /\ timers = <<>>
    /\ hidden = FALSE
    /\ isLoading = TRUE
    /\ listReq = [st |-> "sent", snap |-> <<>>]
    /\ convList = <<>>
    /\ startNewPending = 1
    /\ srv = [InitSrv EXCEPT !.convs["c1"].present = TRUE]
    /\ currentConversationId = "c1"
    /\ pane = StoredPane
    /\ nextUid = 3
    /\ cam = 0
    /\ ctl = [cur |-> 0, aborted |-> {}, next |-> 1]
    /\ ui = IdleUi
    /\ subs = [s \in 1..MaxSubmits |-> IdleSub]
    /\ seen = [n |-> 0, mark |-> NoId]
    /\ notif = NoNotif
    /\ regen = IdleRegen
    /\ convReqs = <<>>
    /\ keepAlive = 0
    /\ \E text \in Texts : wire = [all |-> Encode(text), pos |-> 0]
    /\ wsOut = <<>>

NextDecode ==
    \/ \E via \in {"button", "enter"} : FirstSubmit(via, UserText)
    \/ \E ok \in BOOLEAN : ChatResponse(1, ok)
    \/ \E n \in 1..(3 * MaxChars) : ReadBytes(1, n)
    \/ BodyEnd(1)
    \/ StopClick
    \/ ChatAborted(1)
    \/ CloseModal

SpecDecode == InitDecode /\ [][NextDecode]_vars


\* C30: when the bytes of the streamed reply have been read to the end, in
\* chunks cut at any byte positions, the text accumulated from decoding each
\* chunk on its own and concatenating is the decoding of the whole byte
\* sequence, also when a character of several bytes lies across a cut.
C30_ChunkedDecodeEqualsWhole ==
    (subs[1].pc \in {"reading", "done"} /\ wire.pos = Len(wire.all))
        => subs[1].text = decode(wire.all)

====
